---- MODULE Spec2Model ----
(***************************************************************************)
(* A model of the runbook-generator command-processing pipeline:           *)
(* Dedup.Process, Sanitizer.Process / SanitizeString over the ordered      *)
(* DefaultPatterns table, IntentAnalyzer.Analyze, and the CLI run().       *)
(*                                                                         *)
(* Command texts are sequences of one-character strings, so that length,   *)
(* trimming, prefixes, edit distance and regular-expression matching are   *)
(* computed character by character, as the Go code computes them.          *)
(***************************************************************************)
EXTENDS Integers, Sequences, FiniteSets, TLC

VARIABLES
    dEntries,   \* Dedup.Process: the input slice `entries`
    dI,         \* Dedup.Process: index of the next entry of the range loop (1-based)
    dResult,    \* Dedup.Process: the `result` slice
    dBefore,    \* `result` as it was before the last loop iteration
    dRule,      \* which branch of the loop body the last iteration took
    dDone,      \* Dedup.Process has returned
    sCall,      \* which Sanitizer method runs: "Process" or "SanitizeString"
    sStrict,    \* Sanitizer.strictMode
    sEntries,   \* Process: the input slice `entries`
    sIdx,       \* Process: index of the entry being sanitized (1-based)
    sPat,       \* sanitizeEntry: index of the next pattern of the range loop
    sCommand,   \* sanitizeEntry: the local `command`
    sEntryRedactions, \* sanitizeEntry: the local `redactions`
    sResult,    \* Process: the `result` slice
    sRedactions, \* Process: the `redactions` slice
    sTrace,     \* one record per finished sanitizeEntry call: how it returned
    sDone,      \* Process has returned
    sTexts,     \* SanitizeString: the argument, then the result of each call
    aWorkflows, \* IntentAnalyzer.workflows
    aThreshold, \* IntentAnalyzer.threshold, in seconds
    aEntries,   \* Analyze: the input slice `entries`
    aI,         \* Analyze: index of the next entry of the range loop (1-based)
    aGroups,    \* Analyze: the `groups` slice
    aCurrent,   \* Analyze: `currentGroup`, <<>> for nil, else <<group>>
    aDone,      \* Analyze has returned
    rPc,        \* run: the next step
    rAI,        \* run: aiClient != nil
    rExtracted, \* run: the entries Extract returned
    rEntries,   \* run: the local `entries`
    rDedup,     \* run: how the deduplication step went
    rSanitized, \* run: sanitizer.Process has returned
    rRedactions, \* run: the local `redactions`
    rGroups,    \* run: the local `groups`
    rSent,      \* every user message handed to Client.sendMessage, in order
    rData,      \* run: the RunbookData given to the generator, <<>> before
    rErr,       \* run: the returned error, "nil" for none
    xLines,     \* Extract: the lines of the history file
    xFrom,      \* Extract: the argument `from`
    xTo,        \* Extract: the argument `to`
    xPos,       \* Extract: index of the line the scanner reads next (1-based)
    xNumber,    \* Extract: the local `commandNumber`
    xEntries,   \* Extract: the local `entries`
    xStop,      \* Extract: the scan loop has ended
    xErr,       \* Extract: the error returned, "nil" for none
    xDone,      \* Extract has returned
    pFun,       \* the function called on its own, "" for none
    pArgs,      \* its arguments
    pOut        \* <<>> until it has returned, then <<its result>>

dedupVars == <<dEntries, dI, dResult, dBefore, dRule, dDone>>

sanVars == <<sCall, sStrict, sEntries, sIdx, sPat, sCommand, sEntryRedactions,
             sResult, sRedactions, sTrace, sDone, sTexts>>

analyzeVars == <<aWorkflows, aThreshold, aEntries, aI, aGroups, aCurrent, aDone>>

runVars == <<rPc, rAI, rExtracted, rEntries, rDedup, rSanitized, rRedactions,
             rGroups, rSent, rData, rErr>>

extractVars == <<xLines, xFrom, xTo, xPos, xNumber, xEntries, xStop, xErr, xDone>>

callVars == <<pFun, pArgs, pOut>>

vars == <<dedupVars, sanVars, analyzeVars, runVars, extractVars, callVars>>

(***************************************************************************)
(* Text helpers (package strings).                                         *)
(***************************************************************************)

\* unicode.IsSpace restricted to the ASCII white space the model's texts use.
WhiteSpace == {" ", "\t", "\n", "\r", "\f"}

MinOf(S) == CHOOSE x \in S : \A y \in S : x <= y

MaxOf(S) == CHOOSE x \in S : \A y \in S : x >= y

\* the text as it is, white space kept
TrimSpace_Untrimmed(s) == s

\* strings.TrimSpace
TrimSpace(s) ==
    LET keep == {k \in 1..Len(s) : s[k] \notin WhiteSpace}
    IN IF keep = {} THEN <<>> ELSE SubSeq(s, MinOf(keep), MaxOf(keep))

\* strings.HasPrefix
HasPrefix(s, p) == Len(s) >= Len(p) /\ SubSeq(s, 1, Len(p)) = p

\* n copies of the character c
Rep(c, n) == [k \in 1..n |-> c]

(***************************************************************************)
(* history.Entry                                                           *)
(***************************************************************************)

Entry(n, ts, cmd, has) == [Number |-> n, Timestamp |-> ts, Command |-> cmd, HasTime |-> has]

(***************************************************************************)
(* Dedup (dedup.go)                                                        *)
(***************************************************************************)

\* NewDedup: TimeGap = 30 * time.Second (in seconds)
TimeGap == 30

\* Evaluated(v) is TRUE; testing it makes TLC compute v at that point, so
\* that the matrix is filled in the order of the Go loops.
Evaluated(v) == v = v

\* matrix[i][j] from the row above (prevRow) and the cells of row i to its
\* left (row); matrix[i][j] is cell j+1 of a row
LevCell(a, b, i, j, prevRow, row) ==
    LET cost == IF a[i] = b[j] THEN 0 ELSE 1
        del  == prevRow[j + 1] + 1
        ins  == row[j] + 1
        sub  == prevRow[j] + cost
        m1   == IF del < ins THEN del ELSE ins
    IN IF m1 < sub THEN m1 ELSE sub

\* the inner loop `for j := lo; j <= hi; j++` on row i, the range halved at
\* each call so that the nesting stays logarithmic
RECURSIVE LevFill(_, _, _, _, _, _, _)
LevFill(a, b, i, prevRow, lo, hi, row) ==
    IF lo > hi THEN row
    ELSE IF lo = hi THEN Append(row, LevCell(a, b, i, lo, prevRow, row))
    ELSE LET mid == (lo + hi) \div 2
             left == LevFill(a, b, i, prevRow, lo, mid, row)
         IN IF Evaluated(left) THEN LevFill(a, b, i, prevRow, mid + 1, hi, left)
            ELSE left

\* the outer loop `for i := lo; i <= hi; i++`, halved likewise
RECURSIVE LevRows(_, _, _, _, _)
LevRows(a, b, lo, hi, prevRow) ==
    IF lo > hi THEN prevRow
    ELSE IF lo = hi THEN LevFill(a, b, lo, prevRow, 1, Len(b), <<lo>>)
    ELSE LET mid == (lo + hi) \div 2
             upper == LevRows(a, b, lo, mid, prevRow)
         IN IF Evaluated(upper) THEN LevRows(a, b, mid + 1, hi, upper)
            ELSE upper

\* levenshteinDistance
levenshteinDistance(a, b) ==
    IF Len(a) = 0 THEN Len(b)
    ELSE IF Len(b) = 0 THEN Len(a)
    ELSE LevRows(a, b, 1, Len(a), [j \in 1..(Len(b) + 1) |-> j - 1])[Len(b) + 1]

\* Dedup.isExactDuplicate
isExactDuplicate(a, b) == TrimSpace(a.Command) = TrimSpace(b.Command)

hasSignificantGap_AtLeast(a, b) ==
    IF ~a.HasTime \/ ~b.HasTime THEN FALSE
    ELSE b.Timestamp - a.Timestamp >= TimeGap

\* Dedup.hasSignificantGap
hasSignificantGap(a, b) ==
    IF ~a.HasTime \/ ~b.HasTime THEN FALSE
    ELSE b.Timestamp - a.Timestamp > TimeGap

isTypoCorrection_NoCap(a0, b0) ==
    LET a == TrimSpace(a0)
        b == TrimSpace(b0)
        d == Len(a) - Len(b)
        lenDiff == IF d < 0 THEN -d ELSE d
        maxLen == IF Len(b) > Len(a) THEN Len(b) ELSE Len(a)
    IN IF lenDiff > 5 THEN FALSE
       ELSE LET distance == levenshteinDistance(a, b)
            IN distance > 0 /\ distance <= MaxOf({maxLen \div 10, 2})

isTypoCorrection_NoScale(a0, b0) ==
    LET a == TrimSpace(a0)
        b == TrimSpace(b0)
        d == Len(a) - Len(b)
        lenDiff == IF d < 0 THEN -d ELSE d
    IN IF lenDiff > 5 THEN FALSE
       ELSE LET distance == levenshteinDistance(a, b)
            IN distance > 0 /\ distance <= 2

\* Dedup.isTypoCorrection
isTypoCorrection(a0, b0) ==
    LET a == TrimSpace(a0)
        b == TrimSpace(b0)
        d == Len(a) - Len(b)
        lenDiff == IF d < 0 THEN -d ELSE d
    IN IF lenDiff > 5 THEN FALSE
       ELSE LET distance == levenshteinDistance(a, b)
                maxLen == IF Len(b) > Len(a) THEN Len(b) ELSE Len(a)
                t0 == maxLen \div 10
                t1 == IF t0 < 2 THEN 2 ELSE t0
                threshold == IF t1 > 5 THEN 5 ELSE t1
            IN distance > 0 /\ distance <= threshold

\* strings.SplitN(cmd, "=", 2)[0]
BeforeEquals(s) ==
    LET eqs == {k \in 1..Len(s) : s[k] = "="}
    IN IF eqs = {} THEN s ELSE SubSeq(s, 1, MinOf(eqs) - 1)

ExportPrefix == <<"e","x","p","o","r","t"," ">>

CdPrefix == <<"c","d"," ">>

\* extractExportVar
extractExportVar(cmd) ==
    LET rest == IF HasPrefix(cmd, ExportPrefix)
                THEN SubSeq(cmd, Len(ExportPrefix) + 1, Len(cmd)) ELSE cmd
    IN TrimSpace(BeforeEquals(rest))

shouldCollapse_AnyExport(a0, b0) ==
    LET a == TrimSpace(a0)
        b == TrimSpace(b0)
    IN \/ HasPrefix(a, CdPrefix) /\ HasPrefix(b, CdPrefix)
       \/ HasPrefix(a, ExportPrefix) /\ HasPrefix(b, ExportPrefix)

\* Dedup.shouldCollapse
shouldCollapse(a0, b0) ==
    LET a == TrimSpace(a0)
        b == TrimSpace(b0)
    IN IF HasPrefix(a, CdPrefix) /\ HasPrefix(b, CdPrefix) THEN TRUE
       ELSE IF HasPrefix(a, ExportPrefix) /\ HasPrefix(b, ExportPrefix)
            THEN LET aVar == extractExportVar(a)
                     bVar == extractExportVar(b)
                 IN aVar # <<>> /\ aVar = bVar
            ELSE FALSE

ReplaceLast_KeepOld(result, entry) == result

\* result[len(result)-1] = entry
ReplaceLast(result, entry) == [result EXCEPT ![Len(result)] = entry]

DropDuplicate_KeepLast(result, entry) == [result EXCEPT ![Len(result)] = entry]

\* `continue` on an exact duplicate without a significant gap: result is left alone
DropDuplicate(result, entry) == result

KeepRepeat_First(result, prev, entry) == Append(result, prev)

\* result = append(result, entry) in the intentional-repetition branch
KeepRepeat(result, prev, entry) == Append(result, entry)

\* One iteration of the range loop of Dedup.Process on entries[i]:
\* the new result and the branch taken.
ProcessEntry(result, entries, i) ==
    LET entry == entries[i] IN
    IF TrimSpace(entry.Command) = <<>>
    THEN [res |-> result, rule |-> "blank"]
    ELSE IF Len(result) = 0
    THEN [res |-> Append(result, entry), rule |-> "first"]
    ELSE LET prev == result[Len(result)] IN
         IF isExactDuplicate(prev, entry)
         THEN IF hasSignificantGap(prev, entry)
              THEN [res |-> KeepRepeat(result, prev, entry), rule |-> "repeat"]
              ELSE [res |-> DropDuplicate(result, entry), rule |-> "duplicate"]
         ELSE IF isTypoCorrection(prev.Command, entry.Command)
         THEN [res |-> ReplaceLast(result, entry), rule |-> "typo"]
         ELSE IF shouldCollapse(prev.Command, entry.Command)
         THEN [res |-> ReplaceLast(result, entry), rule |-> "collapse"]
         ELSE IF i + 1 <= Len(entries)
                 /\ isTypoCorrection(entry.Command, entries[i + 1].Command)
         THEN [res |-> result, rule |-> "lookahead"]
         ELSE [res |-> Append(result, entry), rule |-> "append"]

RECURSIVE ProcessFrom(_, _, _)
ProcessFrom(entries, i, result) ==
    IF i > Len(entries) THEN result
    ELSE ProcessFrom(entries, i + 1, ProcessEntry(result, entries, i).res)

\* Dedup.Process as a function of its input
DedupProcess(entries) ==
    IF Len(entries) = 0 THEN entries ELSE ProcessFrom(entries, 1, <<>>)

(***************************************************************************)
(* Inputs of Dedup.Process.                                                *)
(***************************************************************************)

\* longest input slice
MaxEntries == 3

CmdBlank == <<" "," ">>

CmdLs == <<"l","s">>

CmdLsPadded == <<" ","l","s">>

CmdPwd == <<"p","w","d">>

CmdGitStauts == <<"g","i","t"," ","s","t","a","u","t","s">>

CmdGitStatus == <<"g","i","t"," ","s","t","a","t","u","s">>

\* 34 characters, three substitutions apart
CmdLogs100 == <<"k","u","b","e","c","t","l"," ","l","o","g","s"," ","d","e","p","l","o","y","/","a","p","i"," ","-","-","t","a","i","l"," ","1","0","0">>

CmdLogs255 == <<"k","u","b","e","c","t","l"," ","l","o","g","s"," ","d","e","p","l","o","y","/","a","p","i"," ","-","-","t","a","i","l"," ","2","5","5">>

\* 62 characters, five and six substitutions apart
CmdLongA == <<"e","c","h","o"," ">> \o Rep("x", 51) \o <<"a","a","a","a","a","a">>

CmdLongB == <<"e","c","h","o"," ">> \o Rep("x", 51) \o <<"b","b","b","b","b","b">>

CmdLongC == <<"e","c","h","o"," ">> \o Rep("x", 51) \o <<"a","b","b","b","b","b">>

\* directory changes, more than five characters apart in length
CmdCdUser == <<"c","d"," ","/","a">>

CmdCdProjects == <<"c","d"," ","/","a","/","b","/","c","/","d">>

\* exports of one variable and of another, none a typo correction of another
CmdExportPath == <<"e","x","p","o","r","t"," ","P","=","1">>

CmdExportPathLong == <<"e","x","p","o","r","t"," ","P","=","1",":","2","2",":","3","3","3">>

CmdExportOther == <<"e","x","p","o","r","t"," ","O","T","H","E","R","=","x","y">>

\* an export of another variable, one substitution from CmdExportPath
CmdExportQ == <<"e","x","p","o","r","t"," ","Q","=","1">>

\* exports without a variable name, six characters apart in length
CmdExportNoName == <<"e","x","p","o","r","t"," ","=","1">>

CmdExportNoNameLong == <<"e","x","p","o","r","t"," ","=","1",":","2","2",":","3","3">>

\* commands taken with every time stamp: they are exact duplicates of each
\* other after trimming, the only case in which Dedup reads a time stamp
TimedCommands == {CmdLs, CmdLsPadded}

\* commands taken without a time stamp
UntimedCommands == {CmdBlank, CmdPwd, CmdGitStauts, CmdGitStatus}

\* long commands, taken without time stamps and at most two to an input
LongCommands == {CmdLogs100, CmdLogs255, CmdLongA, CmdLongB, CmdLongC}

\* seconds; 30 is exactly TimeGap apart from 0, 61 more than TimeGap from both
Times == {0, 30, 61}

NoTime == [has |-> FALSE, ts |-> 0]

TimeOptions == {NoTime} \cup {[has |-> TRUE, ts |-> t] : t \in Times}

\* all sequences over S of length 0..n
SeqsUpTo(S, n) == UNION {[1..k -> S] : k \in 0..n}

\* the extractor numbers entries consecutively in input order
Numbered(cs) == [k \in 1..Len(cs) |-> Entry(k, cs[k].t.ts, cs[k].c, cs[k].t.has)]

EntryChoices ==
    [c : TimedCommands, t : TimeOptions] \cup [c : UntimedCommands, t : {NoTime}]

\* directory changes and exports, none with a time stamp
CollapseCommands ==
    {CmdCdUser, CmdCdProjects, CmdExportPath, CmdExportPathLong, CmdExportOther,
     CmdExportQ, CmdExportNoName, CmdExportNoNameLong}

CmdCdHome == <<"c","d">>

CmdCdRoot == <<"c","d"," ","/">>

\* a directory change and back: `cd` alone, a long path, a short path
ReturnCommands == {CmdCdHome, CmdCdProjects, CmdCdRoot}

\* the longest input made of these
MaxReturnEntries == 4

\* the longest input made of directory changes and exports
MaxCollapseEntries == 2

DedupInputs ==
    {Numbered(cs) : cs \in SeqsUpTo(EntryChoices, MaxEntries)}
    \cup {Numbered(cs) : cs \in SeqsUpTo([c : CollapseCommands, t : {NoTime}], MaxCollapseEntries)}
    \cup {Numbered(cs) : cs \in SeqsUpTo([c : ReturnCommands, t : {NoTime}], MaxReturnEntries)}
    \cup {Numbered(cs) : cs \in SeqsUpTo([c : LongCommands, t : {NoTime}], 2)}
    \cup {Numbered(<<[c |-> CmdLs, t |-> NoTime], [c |-> a, t |-> NoTime],
                     [c |-> b, t |-> NoTime]>>) : a \in LongCommands, b \in LongCommands}

(***************************************************************************)
(* Dedup.Process as a state machine: one action per loop iteration.        *)
(***************************************************************************)

DedupIdle ==
    /\ dEntries = <<>>
    /\ dI = 1
    /\ dResult = <<>>
    /\ dBefore = <<>>
    /\ dRule = "idle"
    /\ dDone = FALSE

DedupStart ==
    /\ dEntries \in DedupInputs
    /\ dI = 1
    /\ dResult = <<>>
    /\ dBefore = <<>>
    /\ dRule = "start"
    /\ dDone = FALSE

\* the body of `for i, entry := range entries`
DedupIterate ==
    /\ ~dDone
    /\ dRule # "idle"
    /\ dI <= Len(dEntries)
    /\ LET r == ProcessEntry(dResult, dEntries, dI)
       IN /\ dResult' = r.res
          /\ dRule' = r.rule
    /\ dBefore' = dResult
    /\ dI' = dI + 1
    /\ UNCHANGED <<dEntries, dDone>>
    /\ UNCHANGED <<sanVars, analyzeVars, runVars, extractVars, callVars>>

\* `return entries` for an empty input, `return result` after the loop
DedupReturn ==
    /\ ~dDone
    /\ dRule # "idle"
    /\ dI > Len(dEntries)
    /\ dResult' = IF Len(dEntries) = 0 THEN dEntries ELSE dResult
    /\ dDone' = TRUE
    /\ UNCHANGED <<dEntries, dI, dBefore, dRule>>
    /\ UNCHANGED <<sanVars, analyzeVars, runVars, extractVars, callVars>>


(***************************************************************************)
(* Properties of Dedup.Process.                                            *)
(***************************************************************************)

\* out is a subsequence of in: its entries are entries of in, unchanged, at
\* strictly increasing positions (the leftmost embedding exists iff any does)
RECURSIVE EmbedsFrom(_, _, _, _)
EmbedsFrom(out, k, in, j) ==
    IF k > Len(out) THEN TRUE
    ELSE IF j > Len(in) THEN FALSE
    ELSE IF out[k] = in[j] THEN EmbedsFrom(out, k + 1, in, j + 1)
    ELSE EmbedsFrom(out, k, in, j + 1)

IsSubsequence(out, in) == EmbedsFrom(out, 1, in, 1)

\* the entry the last iteration processed, and the entry it was compared with
LastEntry == dEntries[dI - 1]

LastPrev == dBefore[Len(dBefore)]

\* the last iteration compared a non-blank entry with the last result entry
Compared == dI > 1 /\ Len(dBefore) > 0 /\ TrimSpace(LastEntry.Command) # <<>>

\* C2: the result of Dedup.Process is, at every point of the loop and on
\* return, a subsequence of the input (unmodified input entries at strictly
\* increasing input positions), so it is never longer than the input.
C2_OutputIsSubsequence ==
    /\ IsSubsequence(dResult, dEntries)
    /\ Len(dResult) <= Len(dEntries)

\* C2 witness: a finished run that dropped an entry and replaced another.
C2_Witness ==
    /\ dDone
    /\ Len(dEntries) = 3
    /\ Len(dResult) = 2
    /\ dResult[1] = dEntries[2]
    /\ dResult[2] = dEntries[3]

\* C8: an entry whose trimmed command equals that of the last result entry is
\* appended iff both carry time stamps and it is more than TimeGap later;
\* otherwise it is dropped and the result is unchanged.
C8_ExactDuplicateRule ==
    (Compared /\ TrimSpace(LastPrev.Command) = TrimSpace(LastEntry.Command)) =>
        IF /\ LastPrev.HasTime
           /\ LastEntry.HasTime
           /\ LastEntry.Timestamp - LastPrev.Timestamp > TimeGap
        THEN dResult = Append(dBefore, LastEntry)
        ELSE dResult = dBefore

\* C8 witness: a repetition kept because of its gap, after one dropped
\* because it was exactly TimeGap later.
C8_Witness ==
    /\ dRule = "repeat"
    /\ dI = 4
    /\ Len(dResult) = 2
    /\ dEntries[2].HasTime
    /\ dEntries[2].Timestamp - dEntries[1].Timestamp = TimeGap
    /\ dResult[2] = dEntries[3]

\* a run of exact duplicates, all with time stamps within TimeGap of each other
QuickRun(es) ==
    /\ Len(es) >= 2
    /\ \A k \in 1..Len(es) :
          /\ TrimSpace(es[k].Command) # <<>>
          /\ TrimSpace(es[k].Command) = TrimSpace(es[1].Command)
          /\ es[k].HasTime
    /\ \A j, k \in 1..Len(es) : es[k].Timestamp - es[j].Timestamp <= TimeGap

\* C9 as stated: the survivor of a collapsed run is its last occurrence.
C9_LastOccurrenceSurvives ==
    (dDone /\ QuickRun(dEntries)) => dResult = <<dEntries[Len(dEntries)]>>

\* C9 amended: a run of exact duplicates within TimeGap of each other
\* collapses to its first occurrence (first sequence number and time stamp).
C9_FirstOccurrenceSurvives ==
    (dDone /\ QuickRun(dEntries)) => dResult = <<dEntries[1]>>

\* C9 witness: three quick duplicates with different time stamps collapsed.
C9_Witness ==
    /\ dDone
    /\ QuickRun(dEntries)
    /\ Len(dEntries) = 3
    /\ dEntries[3].Timestamp > dEntries[1].Timestamp
    /\ dResult = <<dEntries[1]>>

Clamp(x, lo, hi) == IF x < lo THEN lo ELSE IF x > hi THEN hi ELSE x

\* the distance rule as the claim states it, on trimmed texts
TypoRule(a0, b0) ==
    LET a == TrimSpace(a0)
        b == TrimSpace(b0)
        longer == IF Len(a) > Len(b) THEN Len(a) ELSE Len(b)
        shorter == IF Len(a) > Len(b) THEN Len(b) ELSE Len(a)
        d == levenshteinDistance(a, b)
    IN /\ longer - shorter <= 5
       /\ 0 < d
       /\ d <= Clamp(longer \div 10, 2, 5)

Commands(es) == [k \in 1..Len(es) |-> es[k].Command]

Upper == {"A","B","C","D","E","F","G","H","I","J","K","L","M",
          "N","O","P","Q","R","S","T","U","V","W","X","Y","Z"}

Lower == {"a","b","c","d","e","f","g","h","i","j","k","l","m",
          "n","o","p","q","r","s","t","u","v","w","x","y","z"}

Digit == {"0","1","2","3","4","5","6","7","8","9"}

HexLower == {"a","b","c","d","e","f"}

HexUpper == {"A","B","C","D","E","F"}

\* \w
WordChars == Upper \cup Lower \cup Digit \cup {"_"}

UpperSeq == <<"A","B","C","D","E","F","G","H","I","J","K","L","M",
              "N","O","P","Q","R","S","T","U","V","W","X","Y","Z">>

LowerSeq == <<"a","b","c","d","e","f","g","h","i","j","k","l","m",
              "n","o","p","q","r","s","t","u","v","w","x","y","z">>

\* the characters that match c under the flag (?i)
Fold(c) ==
    {c} \cup {UpperSeq[k] : k \in {k \in 1..26 : LowerSeq[k] = c}}
        \cup {LowerSeq[k] : k \in {k \in 1..26 : UpperSeq[k] = c}}

\* a repetition without upper limit: *, + and {n,}
Unbounded == -1

Node(t, chars, neg, min, max, alts, g) ==
    [t |-> t, chars |-> chars, neg |-> neg, min |-> min, max |-> max, alts |-> alts, g |-> g]

\* [chars]{min,max} and [^chars]{min,max}
Set(chars, min, max) == Node("set", chars, FALSE, min, max, <<>>, 0)

NotSet(chars, min, max) == Node("set", chars, TRUE, min, max, <<>>, 0)

\* a literal string, and a literal string under (?i): one class per character
Lit(s) == <<Node("lit", {}, FALSE, 1, 1, [k \in 1..Len(s) |-> {s[k]}], 0)>>

LitFold(s) == <<Node("lit", {}, FALSE, 1, 1, [k \in 1..Len(s) |-> Fold(s[k])], 0)>>

\* (nodes) as capture group g
Group(g, nodes) ==
    <<Node("open", {}, FALSE, 1, 1, <<>>, g)>> \o nodes \o <<Node("close", {}, FALSE, 1, 1, <<>>, g)>>

\* (?:a|b|...) when min = 1, (?:a|b|...)? when min = 0
Alt(alts, min) == <<Node("alt", {}, FALSE, min, 1, alts, 0)>>

\* \b
WordBoundary == <<Node("wb", {}, FALSE, 1, 1, <<>>, 0)>>

\* the largest capture group number in DefaultPatterns
MaxGroup == 4

NoCaptures == [g \in 1..MaxGroup |-> [s |-> 1, e |-> 1]]

NoMatch == [ok |-> FALSE, end |-> 0, caps |-> NoCaptures]

InClass(c, n) == (c \in n.chars) # n.neg

\* how many characters from pos on are in the class of node n, up to n.max
RunLength(n, text, pos) ==
    LET stops == {k \in pos..Len(text) : ~InClass(text[k], n)}
        run == (IF stops = {} THEN Len(text) + 1 ELSE MinOf(stops)) - pos
    IN IF n.max # Unbounded /\ run > n.max THEN n.max ELSE run

IsWordChar(text, k) == k >= 1 /\ k <= Len(text) /\ text[k] \in WordChars

\* The match of `nodes` that starts at pos, if any: the first in the order
\* of a backtracking search (longest repetition first, alternatives in order).
RECURSIVE MatchHere(_, _, _, _)
RECURSIVE FirstAlt(_, _, _, _, _, _)
MatchHere(nodes, text, pos, caps) ==
    IF nodes = <<>> THEN [ok |-> TRUE, end |-> pos, caps |-> caps]
    ELSE LET n == Head(nodes)
             rest == Tail(nodes)
         IN CASE n.t = "lit" ->
                   IF /\ pos + Len(n.alts) - 1 <= Len(text)
                      /\ \A k \in 1..Len(n.alts) : text[pos + k - 1] \in n.alts[k]
                   THEN MatchHere(rest, text, pos + Len(n.alts), caps) ELSE NoMatch
              [] n.t = "set" ->
                   LET tries == {[k |-> k, r |-> MatchHere(rest, text, pos + k, caps)] :
                                    k \in n.min..RunLength(n, text, pos)}
                       good == {x \in tries : x.r.ok}
                   IN IF good = {} THEN NoMatch
                      ELSE (CHOOSE x \in good : \A y \in good : y.k <= x.k).r
              [] n.t = "open" ->
                   MatchHere(rest, text, pos, [caps EXCEPT ![n.g] = [s |-> pos, e |-> pos]])
              [] n.t = "close" ->
                   MatchHere(rest, text, pos, [caps EXCEPT ![n.g].e = pos])
              [] n.t = "wb" ->
                   IF IsWordChar(text, pos - 1) # IsWordChar(text, pos)
                   THEN MatchHere(rest, text, pos, caps) ELSE NoMatch
              [] n.t = "alt" -> FirstAlt(n, 1, rest, text, pos, caps)

FirstAlt(n, k, rest, text, pos, caps) ==
    IF k > Len(n.alts)
    THEN IF n.min = 0 THEN MatchHere(rest, text, pos, caps) ELSE NoMatch
    ELSE LET r == MatchHere(n.alts[k] \o rest, text, pos, caps)
         IN IF r.ok THEN r ELSE FirstAlt(n, k + 1, rest, text, pos, caps)

\* the match starting at each position of text
MatchesAt(re, text) ==
    {[s |-> s, r |-> MatchHere(re, text, s, NoCaptures)] : s \in 1..(Len(text) + 1)}

\* Regexp.MatchString
MatchString(re, text) == \E m \in MatchesAt(re, text) : m.r.ok

\* Regexp.Expand of a template: literal text and ${g} references
RECURSIVE Expand(_, _, _)
Expand(template, text, caps) ==
    IF template = <<>> THEN <<>>
    ELSE LET part == Head(template)
             piece == IF part.g = 0 THEN part.lit
                      ELSE SubSeq(text, caps[part.g].s, caps[part.g].e - 1)
         IN piece \o Expand(Tail(template), text, caps)

\* the successive non-overlapping matches from pos on, each replaced
RECURSIVE ReplaceFrom(_, _, _, _)
ReplaceFrom(found, template, text, pos) ==
    LET later == {m \in found : m.s >= pos}
    IN IF later = {} THEN SubSeq(text, pos, Len(text))
       ELSE LET m == CHOOSE x \in later : \A y \in later : x.s <= y.s
            IN IF m.r.end > m.s
               THEN SubSeq(text, pos, m.s - 1) \o Expand(template, text, m.r.caps)
                        \o ReplaceFrom(found, template, text, m.r.end)
               ELSE IF m.s > Len(text)
               THEN SubSeq(text, pos, m.s - 1) \o Expand(template, text, m.r.caps)
               ELSE SubSeq(text, pos, m.s - 1) \o Expand(template, text, m.r.caps)
                        \o SubSeq(text, m.s, m.s)
                        \o ReplaceFrom(found, template, text, m.s + 1)

\* Regexp.ReplaceAllString
ReplaceAllString(re, text, template) ==
    ReplaceFrom({m \in MatchesAt(re, text) : m.r.ok}, template, text, 1)

\* template parts
T(s) == [g |-> 0, lit |-> s]

Ref(g) == [g |-> g, lit |-> <<>>]

Redacted == <<"<","R","E","D","A","C","T","E","D",">">>

(***************************************************************************)
(* DefaultPatterns (patterns.go): the ordered pattern table.  Each Regex   *)
(* is the node sequence of the Go expression on the quoted line; each      *)
(* Replacement is its template.                                            *)
(***************************************************************************)

DefaultPatterns == <<
      \* 1. password-flag-quoted-double  (patterns.go:19)
      [Name |-> "password-flag-quoted-double",
       Regex |-> Group(1, Lit(<<"-","-","p","a","s","s","w","o","r","d">>) \o <<Set(WhiteSpace \cup {"="}, 1, Unbounded)>>)
                 \o Lit(<<"\"">>)
                 \o Group(2, <<NotSet({"\""}, 1, Unbounded)>>)
                 \o Lit(<<"\"">>),
       Replacement |-> <<Ref(1), T(<<"\"","<","R","E","D","A","C","T","E","D",">","\"">>)>>,
       FullRemove |-> FALSE],
      \* 2. password-flag-quoted-single  (patterns.go:24)
      [Name |-> "password-flag-quoted-single",
       Regex |-> Group(1, Lit(<<"-","-","p","a","s","s","w","o","r","d">>) \o <<Set(WhiteSpace \cup {"="}, 1, Unbounded)>>)
                 \o Lit(<<"'">>)
                 \o Group(2, <<NotSet({"'"}, 1, Unbounded)>>)
                 \o Lit(<<"'">>),
       Replacement |-> <<Ref(1), T(<<"'","<","R","E","D","A","C","T","E","D",">","'">>)>>,
       FullRemove |-> FALSE],
      \* 3. password-flag-unquoted  (patterns.go:30)
      [Name |-> "password-flag-unquoted",
       Regex |-> Group(1, Lit(<<"-","-","p","a","s","s","w","o","r","d">>) \o <<Set(WhiteSpace \cup {"="}, 1, Unbounded)>>)
                 \o Group(2, <<NotSet(WhiteSpace \cup {"'","\""}, 1, Unbounded)>>),
       Replacement |-> <<Ref(1), T(Redacted)>>,
       FullRemove |-> FALSE],
      \* 4. passwd-flag  (patterns.go:35)
      [Name |-> "passwd-flag",
       Regex |-> Group(1, Lit(<<"-","-","p","a","s","s","w","d">>) \o <<Set(WhiteSpace \cup {"="}, 1, Unbounded)>>)
                 \o Group(2, <<Set({"'","\""}, 0, 1)>>)
                 \o Group(3, <<NotSet(WhiteSpace \cup {"'","\""}, 1, Unbounded)>>)
                 \o Group(4, <<Set({"'","\""}, 0, 1)>>),
       Replacement |-> <<Ref(1), Ref(2), T(Redacted), Ref(4)>>,
       FullRemove |-> FALSE],
      \* 5. mysql-password  (patterns.go:41)
      [Name |-> "mysql-password",
       Regex |-> Group(1, <<Set(WhiteSpace, 1, 1)>> \o Lit(<<"-","p">>))
                 \o Group(2, <<Set({"'","\""}, 0, 1)>>)
                 \o Group(3, <<NotSet(WhiteSpace \cup {"'","\"","-"}, 1, 1)>> \o <<NotSet(WhiteSpace \cup {"'","\""}, 0, Unbounded)>>)
                 \o Group(4, <<Set({"'","\""}, 0, 1)>>),
       Replacement |-> <<Ref(1), Ref(2), T(Redacted), Ref(4)>>,
       FullRemove |-> FALSE],
      \* 6. token-flag  (patterns.go:48)
      [Name |-> "token-flag",
       Regex |-> Group(1, Lit(<<"-","-","t","o","k","e","n">>) \o <<Set(WhiteSpace \cup {"="}, 1, Unbounded)>> \o <<Set({"'","\""}, 0, 1)>>)
                 \o Group(2, <<NotSet(WhiteSpace \cup {"'","\""}, 1, Unbounded)>>)
                 \o Group(3, <<Set({"'","\""}, 0, 1)>>),
       Replacement |-> <<Ref(1), T(Redacted), Ref(3)>>,
       FullRemove |-> FALSE],
      \* 7. api-key-flag  (patterns.go:53)
      [Name |-> "api-key-flag",
       Regex |-> Group(1, Lit(<<"-","-","a","p","i","-","k","e","y">>) \o <<Set(WhiteSpace \cup {"="}, 1, Unbounded)>> \o <<Set({"'","\""}, 0, 1)>>)
                 \o Group(2, <<NotSet(WhiteSpace \cup {"'","\""}, 1, Unbounded)>>)
                 \o Group(3, <<Set({"'","\""}, 0, 1)>>),
       Replacement |-> <<Ref(1), T(Redacted), Ref(3)>>,
       FullRemove |-> FALSE],
      \* 8. secret-flag  (patterns.go:58)
      [Name |-> "secret-flag",
       Regex |-> Group(1, Lit(<<"-","-","s","e","c","r","e","t">>) \o <<Set(WhiteSpace \cup {"="}, 1, Unbounded)>> \o <<Set({"'","\""}, 0, 1)>>)
                 \o Group(2, <<NotSet(WhiteSpace \cup {"'","\""}, 1, Unbounded)>>)
                 \o Group(3, <<Set({"'","\""}, 0, 1)>>),
       Replacement |-> <<Ref(1), T(Redacted), Ref(3)>>,
       FullRemove |-> FALSE],
      \* 9. api-key-export  (patterns.go:65)
      [Name |-> "api-key-export",
       Regex |-> Group(1, Lit(<<"e","x","p","o","r","t">>) \o <<Set(WhiteSpace, 1, Unbounded)>> \o <<Set(Upper \cup {"_"}, 0, Unbounded)>> \o Lit(<<"A","P","I">>) \o <<Set({"_"}, 0, 1)>> \o Lit(<<"K","E","Y">>) \o <<Set(WhiteSpace, 0, Unbounded)>> \o Lit(<<"=">>) \o <<Set(WhiteSpace, 0, Unbounded)>> \o <<Set({"'","\""}, 0, 1)>>)
                 \o Group(2, <<NotSet(WhiteSpace \cup {"'","\""}, 1, Unbounded)>>)
                 \o Group(3, <<Set({"'","\""}, 0, 1)>>),
       Replacement |-> <<Ref(1), T(Redacted), Ref(3)>>,
       FullRemove |-> FALSE],
      \* 10. secret-export  (patterns.go:70)
      [Name |-> "secret-export",
       Regex |-> Group(1, Lit(<<"e","x","p","o","r","t">>) \o <<Set(WhiteSpace, 1, Unbounded)>> \o <<Set(Upper \cup {"_"}, 0, Unbounded)>> \o Lit(<<"S","E","C","R","E","T">>) \o <<Set(Upper \cup {"_"}, 0, Unbounded)>> \o <<Set(WhiteSpace, 0, Unbounded)>> \o Lit(<<"=">>) \o <<Set(WhiteSpace, 0, Unbounded)>> \o <<Set({"'","\""}, 0, 1)>>)
                 \o Group(2, <<NotSet(WhiteSpace \cup {"'","\""}, 1, Unbounded)>>)
                 \o Group(3, <<Set({"'","\""}, 0, 1)>>),
       Replacement |-> <<Ref(1), T(Redacted), Ref(3)>>,
       FullRemove |-> FALSE],
      \* 11. password-export  (patterns.go:75)
      [Name |-> "password-export",
       Regex |-> Group(1, Lit(<<"e","x","p","o","r","t">>) \o <<Set(WhiteSpace, 1, Unbounded)>> \o <<Set(Upper \cup {"_"}, 0, Unbounded)>> \o Lit(<<"P","A","S","S">>) \o Alt(<<Lit(<<"W","O","R","D">>)>>, 0) \o <<Set(Upper \cup {"_"}, 0, Unbounded)>> \o <<Set(WhiteSpace, 0, Unbounded)>> \o Lit(<<"=">>) \o <<Set(WhiteSpace, 0, Unbounded)>> \o <<Set({"'","\""}, 0, 1)>>)
                 \o Group(2, <<NotSet(WhiteSpace \cup {"'","\""}, 1, Unbounded)>>)
                 \o Group(3, <<Set({"'","\""}, 0, 1)>>),
       Replacement |-> <<Ref(1), T(Redacted), Ref(3)>>,
       FullRemove |-> FALSE],
      \* 12. token-export  (patterns.go:80)
      [Name |-> "token-export",
       Regex |-> Group(1, Lit(<<"e","x","p","o","r","t">>) \o <<Set(WhiteSpace, 1, Unbounded)>> \o <<Set(Upper \cup {"_"}, 0, Unbounded)>> \o Lit(<<"T","O","K","E","N">>) \o <<Set(WhiteSpace, 0, Unbounded)>> \o Lit(<<"=">>) \o <<Set(WhiteSpace, 0, Unbounded)>> \o <<Set({"'","\""}, 0, 1)>>)
                 \o Group(2, <<NotSet(WhiteSpace \cup {"'","\""}, 1, Unbounded)>>)
                 \o Group(3, <<Set({"'","\""}, 0, 1)>>),
       Replacement |-> <<Ref(1), T(Redacted), Ref(3)>>,
       FullRemove |-> FALSE],
      \* 13. credentials-export  (patterns.go:85)
      [Name |-> "credentials-export",
       Regex |-> Group(1, Lit(<<"e","x","p","o","r","t">>) \o <<Set(WhiteSpace, 1, Unbounded)>> \o <<Set(Upper \cup {"_"}, 0, Unbounded)>> \o Lit(<<"C","R","E","D">>) \o Alt(<<Lit(<<"E","N","T","I","A","L">>)>>, 0) \o <<Set({"S"}, 0, 1)>> \o <<Set(Upper \cup {"_"}, 0, Unbounded)>> \o <<Set(WhiteSpace, 0, Unbounded)>> \o Lit(<<"=">>) \o <<Set(WhiteSpace, 0, Unbounded)>> \o <<Set({"'","\""}, 0, 1)>>)
                 \o Group(2, <<NotSet(WhiteSpace \cup {"'","\""}, 1, Unbounded)>>)
                 \o Group(3, <<Set({"'","\""}, 0, 1)>>),
       Replacement |-> <<Ref(1), T(Redacted), Ref(3)>>,
       FullRemove |-> FALSE],
      \* 14. aws-access-key-id  (patterns.go:92)
      [Name |-> "aws-access-key-id",
       Regex |-> Group(1, Lit(<<"A","W","S","_","A","C","C","E","S","S","_","K","E","Y","_","I","D">>) \o <<Set(WhiteSpace, 0, Unbounded)>> \o Lit(<<"=">>) \o <<Set(WhiteSpace, 0, Unbounded)>> \o <<Set({"'","\""}, 0, 1)>>)
                 \o Group(2, <<Set(Upper \cup Digit, 20, 20)>>)
                 \o Group(3, <<Set({"'","\""}, 0, 1)>>),
       Replacement |-> <<Ref(1), T(Redacted), Ref(3)>>,
       FullRemove |-> FALSE],
      \* 15. aws-secret-key  (patterns.go:97)
      [Name |-> "aws-secret-key",
       Regex |-> Group(1, Lit(<<"A","W","S","_","S","E","C","R","E","T","_","A","C","C","E","S","S","_","K","E","Y">>) \o <<Set(WhiteSpace, 0, Unbounded)>> \o Lit(<<"=">>) \o <<Set(WhiteSpace, 0, Unbounded)>> \o <<Set({"'","\""}, 0, 1)>>)
                 \o Group(2, <<Set(Upper \cup Lower \cup Digit \cup {"/","+","="}, 40, 40)>>)
                 \o Group(3, <<Set({"'","\""}, 0, 1)>>),
       Replacement |-> <<Ref(1), T(Redacted), Ref(3)>>,
       FullRemove |-> FALSE],
      \* 16. aws-session-token  (patterns.go:102)
      [Name |-> "aws-session-token",
       Regex |-> Group(1, Lit(<<"A","W","S","_","S","E","S","S","I","O","N","_","T","O","K","E","N">>) \o <<Set(WhiteSpace, 0, Unbounded)>> \o Lit(<<"=">>) \o <<Set(WhiteSpace, 0, Unbounded)>> \o <<Set({"'","\""}, 0, 1)>>)
                 \o Group(2, <<NotSet(WhiteSpace \cup {"'","\""}, 1, Unbounded)>>)
                 \o Group(3, <<Set({"'","\""}, 0, 1)>>),
       Replacement |-> <<Ref(1), T(Redacted), Ref(3)>>,
       FullRemove |-> FALSE],
      \* 17. connection-string-password  (patterns.go:109)
      [Name |-> "connection-string-password",
       Regex |-> Group(1, Lit(<<":","/","/">>) \o <<NotSet({":"}, 1, Unbounded)>> \o Lit(<<":">>))
                 \o Group(2, <<NotSet({"@"}, 1, Unbounded)>>)
                 \o Group(3, Lit(<<"@">>)),
       Replacement |-> <<Ref(1), T(Redacted), Ref(3)>>,
       FullRemove |-> FALSE],
      \* 18. bearer-token  (patterns.go:116)
      [Name |-> "bearer-token",
       Regex |-> Group(1, Lit(<<"A","u","t","h","o","r","i","z","a","t","i","o","n",":">>) \o <<Set(WhiteSpace, 0, Unbounded)>> \o Lit(<<"B","e","a","r","e","r">>) \o <<Set(WhiteSpace, 1, Unbounded)>>)
                 \o Group(2, <<NotSet(WhiteSpace \cup {"'","\""}, 1, Unbounded)>>),
       Replacement |-> <<Ref(1), T(Redacted)>>,
       FullRemove |-> FALSE],
      \* 19. basic-auth  (patterns.go:121)
      [Name |-> "basic-auth",
       Regex |-> Group(1, Lit(<<"A","u","t","h","o","r","i","z","a","t","i","o","n",":">>) \o <<Set(WhiteSpace, 0, Unbounded)>> \o Lit(<<"B","a","s","i","c">>) \o <<Set(WhiteSpace, 1, Unbounded)>>)
                 \o Group(2, <<NotSet(WhiteSpace \cup {"'","\""}, 1, Unbounded)>>),
       Replacement |-> <<Ref(1), T(Redacted)>>,
       FullRemove |-> FALSE],
      \* 20. auth-header-h-flag  (patterns.go:126)
      [Name |-> "auth-header-h-flag",
       Regex |-> Group(1, Lit(<<"-","H">>) \o <<Set(WhiteSpace, 1, Unbounded)>> \o <<Set({"'","\""}, 0, 1)>> \o Lit(<<"A","u","t","h","o","r","i","z","a","t","i","o","n",":">>) \o <<Set(WhiteSpace, 0, Unbounded)>> \o Lit(<<"B">>) \o Alt(<<Lit(<<"e","a","r","e","r">>), Lit(<<"a","s","i","c">>)>>, 1) \o <<Set(WhiteSpace, 1, Unbounded)>>)
                 \o Group(2, <<NotSet(WhiteSpace \cup {"'","\""}, 1, Unbounded)>>)
                 \o Group(3, <<Set({"'","\""}, 0, 1)>>),
       Replacement |-> <<Ref(1), T(Redacted), Ref(3)>>,
       FullRemove |-> FALSE],
      \* 21. private-key  (patterns.go:134)
      [Name |-> "private-key",
       Regex |-> Lit(<<"-","-","-","-","-","B","E","G","I","N">>)
                 \o <<Set(WhiteSpace, 1, Unbounded)>>
                 \o Alt(<<Lit(<<"R","S","A">>) \o <<Set(WhiteSpace, 1, Unbounded)>>, Lit(<<"E","C">>) \o <<Set(WhiteSpace, 1, Unbounded)>>, Lit(<<"O","P","E","N","S","S","H">>) \o <<Set(WhiteSpace, 1, Unbounded)>>, Lit(<<"E","N","C","R","Y","P","T","E","D">>) \o <<Set(WhiteSpace, 1, Unbounded)>>, Lit(<<"D","S","A">>) \o <<Set(WhiteSpace, 1, Unbounded)>>>>, 0)
                 \o Lit(<<"P","R","I","V","A","T","E">>)
                 \o <<Set(WhiteSpace, 1, Unbounded)>>
                 \o Lit(<<"K","E","Y","-","-","-","-","-">>),
       Replacement |-> <<>>,
       FullRemove |-> TRUE],
      \* 22. pgp-private-key  (patterns.go:141)
      [Name |-> "pgp-private-key",
       Regex |-> Lit(<<"-","-","-","-","-","B","E","G","I","N">>)
                 \o <<Set(WhiteSpace, 1, Unbounded)>>
                 \o Lit(<<"P","G","P">>)
                 \o <<Set(WhiteSpace, 1, Unbounded)>>
                 \o Lit(<<"P","R","I","V","A","T","E">>)
                 \o <<Set(WhiteSpace, 1, Unbounded)>>
                 \o Lit(<<"K","E","Y">>)
                 \o <<Set(WhiteSpace, 1, Unbounded)>>
                 \o Lit(<<"B","L","O","C","K","-","-","-","-","-">>),
       Replacement |-> <<>>,
       FullRemove |-> TRUE],
      \* 23. github-token  (patterns.go:149)
      [Name |-> "github-token",
       Regex |-> Group(1, Lit(<<"g","h">>) \o <<Set({"p","s"}, 1, 1)>> \o Lit(<<"_">>) \o <<Set(Upper \cup Lower \cup Digit, 36, Unbounded)>>),
       Replacement |-> <<T(Redacted)>>,
       FullRemove |-> FALSE],
      \* 24. github-pat  (patterns.go:154)
      [Name |-> "github-pat",
       Regex |-> Group(1, Lit(<<"g","i","t","h","u","b","_","p","a","t","_">>) \o <<Set(Upper \cup Lower \cup Digit \cup {"_"}, 22, Unbounded)>>),
       Replacement |-> <<T(Redacted)>>,
       FullRemove |-> FALSE],
      \* 25. jwt-token  (patterns.go:163)
      [Name |-> "jwt-token",
       Regex |-> WordBoundary
                 \o Lit(<<"e","y","J">>)
                 \o <<Set(Upper \cup Lower \cup Digit \cup {"_","-"}, 1, Unbounded)>>
                 \o Lit(<<".","e","y","J">>)
                 \o <<Set(Upper \cup Lower \cup Digit \cup {"_","-"}, 1, Unbounded)>>
                 \o Lit(<<".">>)
                 \o <<Set(Upper \cup Lower \cup Digit \cup {"_","-"}, 1, Unbounded)>>
                 \o WordBoundary,
       Replacement |-> <<T(<<"<","R","E","D","A","C","T","E","D","_","J","W","T",">">>)>>,
       FullRemove |-> FALSE],
      \* 26. slack-bot-token  (patterns.go:173)
      [Name |-> "slack-bot-token",
       Regex |-> Lit(<<"x","o","x","b","-">>)
                 \o <<Set(Digit, 1, Unbounded)>>
                 \o Lit(<<"-">>)
                 \o <<Set(Digit, 1, Unbounded)>>
                 \o Lit(<<"-">>)
                 \o <<Set(Upper \cup Lower \cup Digit, 1, Unbounded)>>,
       Replacement |-> <<T(Redacted)>>,
       FullRemove |-> FALSE],
      \* 27. slack-user-token  (patterns.go:179)
      [Name |-> "slack-user-token",
       Regex |-> Lit(<<"x","o","x","p","-">>)
                 \o <<Set(Digit, 1, Unbounded)>>
                 \o Lit(<<"-">>)
                 \o <<Set(Digit, 1, Unbounded)>>
                 \o Lit(<<"-">>)
                 \o <<Set(Digit, 1, Unbounded)>>
                 \o Lit(<<"-">>)
                 \o <<Set(Upper \cup Lower \cup Digit, 1, Unbounded)>>,
       Replacement |-> <<T(Redacted)>>,
       FullRemove |-> FALSE],
      \* 28. slack-app-token  (patterns.go:185)
      [Name |-> "slack-app-token",
       Regex |-> Lit(<<"x","a","p","p","-">>)
                 \o <<Set(Digit, 1, Unbounded)>>
                 \o Lit(<<"-">>)
                 \o <<Set(Upper \cup Lower \cup Digit, 1, Unbounded)>>
                 \o Lit(<<"-">>)
                 \o <<Set(Digit, 1, Unbounded)>>
                 \o Lit(<<"-">>)
                 \o <<Set(Upper \cup Lower \cup Digit, 1, Unbounded)>>,
       Replacement |-> <<T(Redacted)>>,
       FullRemove |-> FALSE],
      \* 29. slack-refresh-token  (patterns.go:191)
      [Name |-> "slack-refresh-token",
       Regex |-> Lit(<<"x","o","x","r","-">>)
                 \o <<Set(Digit, 1, Unbounded)>>
                 \o Lit(<<"-">>)
                 \o <<Set(Upper \cup Lower \cup Digit, 1, Unbounded)>>,
       Replacement |-> <<T(Redacted)>>,
       FullRemove |-> FALSE],
      \* 30. slack-webhook  (patterns.go:197)
      [Name |-> "slack-webhook",
       Regex |-> Lit(<<"h","t","t","p","s",":","/","/","h","o","o","k","s",".","s","l","a","c","k",".","c","o","m","/","s","e","r","v","i","c","e","s","/","T">>)
                 \o <<Set(Upper \cup Digit, 1, Unbounded)>>
                 \o Lit(<<"/","B">>)
                 \o <<Set(Upper \cup Digit, 1, Unbounded)>>
                 \o Lit(<<"/">>)
                 \o <<Set(Upper \cup Lower \cup Digit, 1, Unbounded)>>,
       Replacement |-> <<T(<<"<","R","E","D","A","C","T","E","D","_","S","L","A","C","K","_","W","E","B","H","O","O","K",">">>)>>,
       FullRemove |-> FALSE],
      \* 31. discord-webhook  (patterns.go:203)
      [Name |-> "discord-webhook",
       Regex |-> Lit(<<"h","t","t","p","s",":","/","/","d","i","s","c","o","r","d">>)
                 \o Alt(<<Lit(<<"a","p","p">>)>>, 0)
                 \o Lit(<<".","c","o","m","/","a","p","i","/","w","e","b","h","o","o","k","s","/">>)
                 \o <<Set(Digit, 1, Unbounded)>>
                 \o Lit(<<"/">>)
                 \o <<Set(Upper \cup Lower \cup Digit \cup {"_","-"}, 1, Unbounded)>>,
       Replacement |-> <<T(<<"<","R","E","D","A","C","T","E","D","_","D","I","S","C","O","R","D","_","W","E","B","H","O","O","K",">">>)>>,
       FullRemove |-> FALSE],
      \* 32. generic-webhook-secret  (patterns.go:209)
      [Name |-> "generic-webhook-secret",
       Regex |-> Group(1, Lit(<<"h","t","t","p">>) \o <<Set({"s"}, 0, 1)>> \o Lit(<<":","/","/">>) \o <<NotSet({"/"}, 1, Unbounded)>> \o Lit(<<"/","w","e","b","h","o","o","k">>) \o <<Set({"s"}, 0, 1)>> \o Lit(<<"/">>))
                 \o <<Set(Upper \cup Lower \cup Digit \cup {"_","-"}, 20, Unbounded)>>,
       Replacement |-> <<Ref(1), T(Redacted)>>,
       FullRemove |-> FALSE],
      \* 33. gcp-api-key  (patterns.go:219)
      [Name |-> "gcp-api-key",
       Regex |-> Lit(<<"A","I","z","a">>)
                 \o <<Set(Upper \cup Lower \cup Digit \cup {"_","-"}, 35, 35)>>,
       Replacement |-> <<T(Redacted)>>,
       FullRemove |-> FALSE],
      \* 34. google-oauth  (patterns.go:225)
      [Name |-> "google-oauth",
       Regex |-> Lit(<<"y","a","2","9",".">>)
                 \o <<Set(Upper \cup Lower \cup Digit \cup {"_","-"}, 1, Unbounded)>>,
       Replacement |-> <<T(Redacted)>>,
       FullRemove |-> FALSE],
      \* 35. azure-storage-key  (patterns.go:231)
      [Name |-> "azure-storage-key",
       Regex |-> Group(1, LitFold(<<"A","c","c","o","u","n","t","K","e","y">>) \o <<Set(WhiteSpace, 0, Unbounded)>> \o Lit(<<"=">>) \o <<Set(WhiteSpace, 0, Unbounded)>>)
                 \o Group(2, <<Set(Upper \cup Lower \cup Digit \cup {"+","/","="}, 88, 88)>>),
       Replacement |-> <<Ref(1), T(Redacted)>>,
       FullRemove |-> FALSE],
      \* 36. azure-connection-string  (patterns.go:237)
      [Name |-> "azure-connection-string",
       Regex |-> Group(1, LitFold(<<"D","e","f","a","u","l","t","E","n","d","p","o","i","n","t","s","P","r","o","t","o","c","o","l","=","h","t","t","p">>) \o <<Set(Fold("s"), 0, 1)>> \o LitFold(<<";","A","c","c","o","u","n","t","N","a","m","e","=">>) \o <<NotSet({";"}, 1, Unbounded)>> \o LitFold(<<";","A","c","c","o","u","n","t","K","e","y","=">>))
                 \o Group(2, <<Set(Upper \cup Lower \cup Digit \cup {"+","/","="}, 1, Unbounded)>>),
       Replacement |-> <<Ref(1), T(Redacted)>>,
       FullRemove |-> FALSE],
      \* 37. azure-sas-token  (patterns.go:243)
      [Name |-> "azure-sas-token",
       Regex |-> Group(1, <<Set({"?","&"}, 1, 1)>>)
                 \o Group(2, Lit(<<"s">>) \o Alt(<<Lit(<<"i","g">>), Lit(<<"v">>), Lit(<<"s">>), Lit(<<"r","t">>), Lit(<<"p">>), Lit(<<"e">>), Lit(<<"t">>), Lit(<<"p","r">>), Lit(<<"r">>)>>, 1))
                 \o Lit(<<"=">>)
                 \o <<NotSet(WhiteSpace \cup {"&"}, 1, Unbounded)>>,
       Replacement |-> <<Ref(1), Ref(2), T(<<"=","<","R","E","D","A","C","T","E","D",">">>)>>,
       FullRemove |-> FALSE],
      \* 38. digitalocean-token  (patterns.go:249)
      [Name |-> "digitalocean-token",
       Regex |-> Lit(<<"d","o","p","_","v","1","_">>)
                 \o <<Set(HexLower \cup Digit, 64, 64)>>,
       Replacement |-> <<T(Redacted)>>,
       FullRemove |-> FALSE],
      \* 39. digitalocean-oauth  (patterns.go:255)
      [Name |-> "digitalocean-oauth",
       Regex |-> Lit(<<"d","o","o","_","v","1","_">>)
                 \o <<Set(HexLower \cup Digit, 64, 64)>>,
       Replacement |-> <<T(Redacted)>>,
       FullRemove |-> FALSE],
      \* 40. stripe-secret-key  (patterns.go:261)
      [Name |-> "stripe-secret-key",
       Regex |-> Lit(<<"s","k","_","l","i","v","e","_">>)
                 \o <<Set(Upper \cup Lower \cup Digit, 24, Unbounded)>>,
       Replacement |-> <<T(Redacted)>>,
       FullRemove |-> FALSE],
      \* 41. stripe-test-key  (patterns.go:266)
      [Name |-> "stripe-test-key",
       Regex |-> Lit(<<"s","k","_","t","e","s","t","_">>)
                 \o <<Set(Upper \cup Lower \cup Digit, 24, Unbounded)>>,
       Replacement |-> <<T(Redacted)>>,
       FullRemove |-> FALSE],
      \* 42. stripe-restricted-key  (patterns.go:271)
      [Name |-> "stripe-restricted-key",
       Regex |-> Lit(<<"r","k","_","l","i","v","e","_">>)
                 \o <<Set(Upper \cup Lower \cup Digit, 24, Unbounded)>>,
       Replacement |-> <<T(Redacted)>>,
       FullRemove |-> FALSE],
      \* 43. twilio-account-sid  (patterns.go:277)
      [Name |-> "twilio-account-sid",
       Regex |-> Lit(<<"A","C">>)
                 \o <<Set(HexLower \cup Digit, 32, 32)>>,
       Replacement |-> <<T(Redacted)>>,
       FullRemove |-> FALSE],
      \* 44. twilio-api-key  (patterns.go:282)
      [Name |-> "twilio-api-key",
       Regex |-> Lit(<<"S","K">>)
                 \o <<Set(HexLower \cup Digit, 32, 32)>>,
       Replacement |-> <<T(Redacted)>>,
       FullRemove |-> FALSE],
      \* 45. sendgrid-api-key  (patterns.go:288)
      [Name |-> "sendgrid-api-key",
       Regex |-> Lit(<<"S","G",".">>)
                 \o <<Set(Upper \cup Lower \cup Digit \cup {"_","-"}, 22, 22)>>
                 \o Lit(<<".">>)
                 \o <<Set(Upper \cup Lower \cup Digit \cup {"_","-"}, 43, 43)>>,
       Replacement |-> <<T(Redacted)>>,
       FullRemove |-> FALSE],
      \* 46. mailgun-api-key  (patterns.go:294)
      [Name |-> "mailgun-api-key",
       Regex |-> Lit(<<"k","e","y","-">>)
                 \o <<Set(HexLower \cup Digit, 32, 32)>>,
       Replacement |-> <<T(Redacted)>>,
       FullRemove |-> FALSE],
      \* 47. npm-token  (patterns.go:300)
      [Name |-> "npm-token",
       Regex |-> Lit(<<"n","p","m","_">>)
                 \o <<Set(Upper \cup Lower \cup Digit, 36, Unbounded)>>,
       Replacement |-> <<T(Redacted)>>,
       FullRemove |-> FALSE],
      \* 48. pypi-token  (patterns.go:306)
      [Name |-> "pypi-token",
       Regex |-> Lit(<<"p","y","p","i","-">>)
                 \o <<Set(Upper \cup Lower \cup Digit \cup {"_","-"}, 50, Unbounded)>>,
       Replacement |-> <<T(Redacted)>>,
       FullRemove |-> FALSE],
      \* 49. heroku-api-key  (patterns.go:312)
      [Name |-> "heroku-api-key",
       Regex |-> Group(1, LitFold(<<"H","E","R","O","K","U","_","A","P","I","_","K","E","Y">>) \o <<Set(WhiteSpace, 0, Unbounded)>> \o Lit(<<"=">>) \o <<Set(WhiteSpace, 0, Unbounded)>> \o <<Set({"'","\""}, 0, 1)>>)
                 \o Group(2, <<Set(HexLower \cup HexUpper \cup Digit \cup {"-"}, 36, 36)>>)
                 \o Group(3, <<Set({"'","\""}, 0, 1)>>),
       Replacement |-> <<Ref(1), T(Redacted), Ref(3)>>,
       FullRemove |-> FALSE],
      \* 50. shopify-access-token  (patterns.go:318)
      [Name |-> "shopify-access-token",
       Regex |-> Lit(<<"s","h","p","a","t","_">>)
                 \o <<Set(HexLower \cup Digit, 32, 32)>>,
       Replacement |-> <<T(Redacted)>>,
       FullRemove |-> FALSE],
      \* 51. shopify-shared-secret  (patterns.go:323)
      [Name |-> "shopify-shared-secret",
       Regex |-> Lit(<<"s","h","p","s","s","_">>)
                 \o <<Set(HexLower \cup Digit, 32, 32)>>,
       Replacement |-> <<T(Redacted)>>,
       FullRemove |-> FALSE],
      \* 52. square-access-token  (patterns.go:329)
      [Name |-> "square-access-token",
       Regex |-> Lit(<<"s","q","0","a","t","p","-">>)
                 \o <<Set(Upper \cup Lower \cup Digit \cup {"_","-"}, 22, 22)>>,
       Replacement |-> <<T(Redacted)>>,
       FullRemove |-> FALSE],
      \* 53. square-oauth-secret  (patterns.go:334)
      [Name |-> "square-oauth-secret",
       Regex |-> Lit(<<"s","q","0","c","s","p","-">>)
                 \o <<Set(Upper \cup Lower \cup Digit \cup {"_","-"}, 43, 43)>>,
       Replacement |-> <<T(Redacted)>>,
       FullRemove |-> FALSE],
      \* 54. datadog-api-key  (patterns.go:340)
      [Name |-> "datadog-api-key",
       Regex |-> Group(1, LitFold(<<"D","D","_","A","P","I","_","K","E","Y">>) \o <<Set(WhiteSpace, 0, Unbounded)>> \o Lit(<<"=">>) \o <<Set(WhiteSpace, 0, Unbounded)>> \o <<Set({"'","\""}, 0, 1)>>)
                 \o Group(2, <<Set(HexLower \cup HexUpper \cup Digit, 32, 32)>>)
                 \o Group(3, <<Set({"'","\""}, 0, 1)>>),
       Replacement |-> <<Ref(1), T(Redacted), Ref(3)>>,
       FullRemove |-> FALSE],
      \* 55. newrelic-api-key  (patterns.go:346)
      [Name |-> "newrelic-api-key",
       Regex |-> Lit(<<"N","R","A","K","-">>)
                 \o <<Set(Upper \cup Digit, 27, 27)>>,
       Replacement |-> <<T(Redacted)>>,
       FullRemove |-> FALSE],
      \* 56. vault-token  (patterns.go:352)
      [Name |-> "vault-token",
       Regex |-> Group(1, LitFold(<<"V","A","U","L","T","_","T","O","K","E","N">>) \o <<Set(WhiteSpace, 0, Unbounded)>> \o Lit(<<"=">>) \o <<Set(WhiteSpace, 0, Unbounded)>> \o <<Set({"'","\""}, 0, 1)>>)
                 \o Group(2, <<Set({"s","h","r","S","H","R"}, 1, 1)>> \o Lit(<<".">>) \o <<Set(Upper \cup Lower \cup Digit \cup {"_","-"}, 1, Unbounded)>>)
                 \o Group(3, <<Set({"'","\""}, 0, 1)>>),
       Replacement |-> <<Ref(1), T(Redacted), Ref(3)>>,
       FullRemove |-> FALSE],
      \* 57. mongodb-connection-string  (patterns.go:358)
      [Name |-> "mongodb-connection-string",
       Regex |-> Lit(<<"m","o","n","g","o","d","b">>)
                 \o Alt(<<Lit(<<"+","s","r","v">>)>>, 0)
                 \o Lit(<<":","/","/">>)
                 \o <<NotSet({":"}, 1, Unbounded)>>
                 \o Lit(<<":">>)
                 \o Group(1, <<NotSet({"@"}, 1, Unbounded)>>)
                 \o Lit(<<"@">>),
       Replacement |-> <<T(<<"m","o","n","g","o","d","b",":","/","/","[","u","s","e","r","]",":","<","R","E","D","A","C","T","E","D",">","@">>)>>,
       FullRemove |-> FALSE],
      \* 58. generic-secret-assignment  (patterns.go:366)
      [Name |-> "generic-secret-assignment",
       Regex |-> Group(1, Alt(<<LitFold(<<"s","e","c","r","e","t">>), LitFold(<<"p","a","s","s","w","o","r","d">>), LitFold(<<"p","a","s","s","w","d">>), LitFold(<<"p","w","d">>), LitFold(<<"t","o","k","e","n">>), LitFold(<<"a","p","i","_","k","e","y">>), LitFold(<<"a","p","i","k","e","y">>), LitFold(<<"a","u","t","h">>)>>, 1) \o <<Set({"_","-"}, 0, 1)>> \o <<Set(WordChars, 0, 20)>> \o <<Set(WhiteSpace, 0, 3)>> \o <<Set({"=",":"}, 1, 1)>> \o <<Set(WhiteSpace, 0, 3)>> \o <<Set({"'","\""}, 0, 1)>>)
                 \o Group(2, <<NotSet(WhiteSpace \cup {"'","\""}, 8, Unbounded)>>)
                 \o Group(3, <<Set({"'","\""}, 0, 1)>>),
       Replacement |-> <<Ref(1), T(Redacted), Ref(3)>>,
       FullRemove |-> FALSE],
      \* 59. inline-secret-var  (patterns.go:373)
      [Name |-> "inline-secret-var",
       Regex |-> Group(1, WordBoundary \o Alt(<<Lit(<<"P","A","S","S","W","O","R","D">>), Lit(<<"S","E","C","R","E","T">>), Lit(<<"T","O","K","E","N">>), Lit(<<"A","P","I","_","K","E","Y">>)>>, 1) \o <<Set(WhiteSpace, 0, Unbounded)>> \o Lit(<<"=">>) \o <<Set(WhiteSpace, 0, Unbounded)>> \o <<Set({"'","\""}, 0, 1)>>)
                 \o Group(2, <<NotSet(WhiteSpace \cup {"'","\""}, 1, Unbounded)>>)
                 \o Group(3, <<Set({"'","\""}, 0, 1)>> \o <<Set(WhiteSpace, 1, 1)>>),
       Replacement |-> <<Ref(1), T(Redacted), Ref(3)>>,
       FullRemove |-> FALSE],
      \* 60. curl-password-data  (patterns.go:380)
      [Name |-> "curl-password-data",
       Regex |-> Group(1, Lit(<<"-","d">>) \o <<Set(WhiteSpace, 1, Unbounded)>> \o <<Set({"'","\""}, 0, 1)>> \o <<NotSet({"'","\""}, 0, Unbounded)>> \o Alt(<<Lit(<<"p","a","s","s","w","o","r","d">>), Lit(<<"p","a","s","s","w","d">>), Lit(<<"s","e","c","r","e","t">>), Lit(<<"t","o","k","e","n">>)>>, 1) \o <<Set({"'","\""}, 0, Unbounded)>> \o <<Set(WhiteSpace, 0, Unbounded)>> \o <<Set({"=",":"}, 1, 1)>> \o <<Set(WhiteSpace, 0, Unbounded)>> \o <<Set({"'","\""}, 0, 1)>>)
                 \o Group(2, <<NotSet(WhiteSpace \cup {"'","\"","&"}, 1, Unbounded)>>)
                 \o Group(3, <<Set({"'","\""}, 0, 1)>>),
       Replacement |-> <<Ref(1), T(Redacted), Ref(3)>>,
       FullRemove |-> FALSE],
      \* 61. docker-secret-env  (patterns.go:387)
      [Name |-> "docker-secret-env",
       Regex |-> Group(1, Lit(<<"-","e">>) \o <<Set(WhiteSpace, 1, Unbounded)>> \o <<Set(Upper \cup {"_"}, 0, Unbounded)>> \o Alt(<<Lit(<<"P","A","S","S","W","O","R","D">>), Lit(<<"S","E","C","R","E","T">>), Lit(<<"T","O","K","E","N">>), Lit(<<"A","P","I","_","K","E","Y">>)>>, 1) \o <<Set(Upper \cup {"_"}, 0, Unbounded)>> \o Lit(<<"=">>))
                 \o Group(2, <<NotSet(WhiteSpace, 1, Unbounded)>>),
       Replacement |-> <<Ref(1), T(Redacted)>>,
       FullRemove |-> FALSE],
      \* 62. kubectl-secret  (patterns.go:394)
      [Name |-> "kubectl-secret",
       Regex |-> Group(1, Lit(<<"-","-","f","r","o","m","-","l","i","t","e","r","a","l","=">>) \o <<Set(Upper \cup Lower \cup {"_","-"}, 0, Unbounded)>> \o Alt(<<Lit(<<"p","a","s","s","w","o","r","d">>), Lit(<<"s","e","c","r","e","t">>), Lit(<<"t","o","k","e","n">>), Lit(<<"k","e","y">>)>>, 1) \o <<Set(Upper \cup Lower \cup {"_","-"}, 0, Unbounded)>> \o Lit(<<"=">>))
                 \o Group(2, <<NotSet(WhiteSpace, 1, Unbounded)>>),
       Replacement |-> <<Ref(1), T(Redacted)>>,
       FullRemove |-> FALSE]
    >>

(***************************************************************************)
(* Sanitizer (sanitizer.go)                                                *)
(***************************************************************************)

Redaction_Unnumbered(number, name, original) ==
    [EntryNumber |-> 0, PatternName |-> name, Original |-> original]

Redaction(number, name, original) ==
    [EntryNumber |-> number, PatternName |-> name, Original |-> original]

\* NewSanitizer: patterns = DefaultPatterns()
NewSanitizerPatterns == DefaultPatterns

\* NewSanitizer(): &Sanitizer{patterns: DefaultPatterns(), allowlist: make(map[string]bool)}
NewSanitizer ==
    [patterns |-> NewSanitizerPatterns, allowlist |-> {}, strictMode |-> FALSE]

\* WithAllowlist: s.allowlist[v] = true for every value
WithAllowlist(s, values) ==
    [s EXCEPT !.allowlist = @ \cup {values[k] : k \in 1..Len(values)}]

OriginalFor_Always(strictMode, original) == original

\* Redaction.Original: `original` if s.strictMode, else the zero value ""
OriginalFor(strictMode, original) == IF strictMode THEN original ELSE <<>>

RemovalRedactions_Append(redactions, redaction) == redactions \o <<redaction>>

\* the FullRemove branch: return nil, []Redaction{redaction}
RemovalRedactions(redactions, redaction) == <<redaction>>

\* the locals of sanitizeEntry: `command`, `redactions`, and whether the
\* FullRemove branch has returned
Locals(command, redactions, removed) ==
    [command |-> command, redactions |-> redactions, removed |-> removed]

PatternStep_RedactionPerMatch(strictMode, entry, pattern, st) ==
    LET original == entry.Command
    IN IF ~MatchString(pattern.Regex, st.command) THEN st
       ELSE IF pattern.FullRemove
       THEN Locals(st.command,
                   RemovalRedactions(st.redactions,
                                     Redaction(entry.Number, pattern.Name,
                                               OriginalFor(strictMode, original))),
                   TRUE)
       ELSE Locals(ReplaceAllString(pattern.Regex, st.command, pattern.Replacement),
                   Append(st.redactions,
                          Redaction(entry.Number, pattern.Name,
                                    OriginalFor(strictMode, original))),
                   FALSE)

\* the body of `for _, pattern := range s.patterns` in sanitizeEntry
PatternStep(strictMode, entry, pattern, st) ==
    LET original == entry.Command
    IN IF ~MatchString(pattern.Regex, st.command) THEN st
       ELSE IF pattern.FullRemove
       THEN Locals(st.command,
                   RemovalRedactions(st.redactions,
                                     Redaction(entry.Number, pattern.Name,
                                               OriginalFor(strictMode, original))),
                   TRUE)
       ELSE LET newCommand == ReplaceAllString(pattern.Regex, st.command, pattern.Replacement)
            IN IF newCommand # st.command
               THEN Locals(newCommand,
                           Append(st.redactions,
                                  Redaction(entry.Number, pattern.Name,
                                            OriginalFor(strictMode, original))),
                           FALSE)
               ELSE st

\* the pattern loop over patterns[lo..hi], left as soon as FullRemove returns
RECURSIVE PatternLoop(_, _, _, _, _, _)
PatternLoop(strictMode, entry, patterns, lo, hi, st) ==
    IF st.removed \/ lo > hi THEN st
    ELSE IF lo = hi THEN PatternStep(strictMode, entry, patterns[lo], st)
    ELSE LET mid == (lo + hi) \div 2
             left == PatternLoop(strictMode, entry, patterns, lo, mid, st)
         IN IF Evaluated(left)
            THEN PatternLoop(strictMode, entry, patterns, mid + 1, hi, left)
            ELSE left

\* sanitizeEntry: `sanitized` is <<>> for nil, else <<entry>>
sanitizeEntry(strictMode, patterns, entry) ==
    LET st == PatternLoop(strictMode, entry, patterns, 1, Len(patterns),
                          Locals(entry.Command, <<>>, FALSE))
    IN [sanitized |-> IF st.removed THEN <<>> ELSE <<[entry EXCEPT !.Command = st.command]>>,
        redactions |-> st.redactions]

\* Sanitizer.Process
RECURSIVE SanitizerProcessFrom(_, _, _, _, _, _)
SanitizerProcessFrom(strictMode, patterns, entries, i, result, redactions) ==
    IF i > Len(entries) THEN [result |-> result, redactions |-> redactions]
    ELSE LET r == sanitizeEntry(strictMode, patterns, entries[i])
         IN SanitizerProcessFrom(strictMode, patterns, entries, i + 1,
                                 result \o r.sanitized, redactions \o r.redactions)

SanitizerProcess(strictMode, patterns, entries) ==
    SanitizerProcessFrom(strictMode, patterns, entries, 1, <<>>, <<>>)

\* the text SanitizeString returns for a FullRemove match
RemovedText ==
    <<"[","R","E","D","A","C","T","E","D"," ","-"," ","c","o","n","t","a","i","n","s"," ",
      "s","e","n","s","i","t","i","v","e"," ","d","a","t","a","]">>

\* the loop of SanitizeString over patterns[lo..hi], from the state acc:
\* acc.returned once the FullRemove branch has returned acc.command
RECURSIVE SanitizeRange(_, _, _, _)
SanitizeRange(patterns, lo, hi, acc) ==
    IF acc.returned \/ lo > hi THEN acc
    ELSE IF lo = hi
    THEN LET pattern == patterns[lo]
         IN IF pattern.FullRemove /\ MatchString(pattern.Regex, acc.command)
            THEN [returned |-> TRUE, command |-> RemovedText]
            ELSE [returned |-> FALSE,
                  command |-> ReplaceAllString(pattern.Regex, acc.command, pattern.Replacement)]
    ELSE LET mid == (lo + hi) \div 2
             left == SanitizeRange(patterns, lo, mid, acc)
         IN IF Evaluated(left) THEN SanitizeRange(patterns, mid + 1, hi, left) ELSE left

\* SanitizeString that returns the command as it is where a FullRemove
\* pattern matches
SanitizeString_KeepsRemoved(command) ==
    LET acc == SanitizeRange(NewSanitizerPatterns, 1, Len(NewSanitizerPatterns),
                             [returned |-> FALSE, command |-> command])
    IN IF acc.returned THEN command ELSE acc.command

SanitizeString(command) ==
    SanitizeRange(NewSanitizerPatterns, 1, Len(NewSanitizerPatterns),
                  [returned |-> FALSE, command |-> command]).command

(***************************************************************************)
(* Sanitizer inputs.                                                       *)
(***************************************************************************)

\* the longest input of Process
MaxSanEntries == 2

\* how many times SanitizeString is applied in a row
MaxPasses == 2

\* no pattern matches
SanLs == <<"l","s"," ","-","l","a">>

\* one mask pattern (mysql-password) matches and changes the text
SanMysql == <<"m","y","s","q","l"," ","-","u"," ","r","o","o","t"," ","-","p","'","s","e","c","r","e","t","1","2","3","'"," ","m","y","d","b">>

\* two mask patterns change the text
SanTwo == <<"d","b"," ","-","-","p","a","s","s","w","o","r","d","=","a","b","c","1","2","3","4","5"," ","-","p","x","y","z">>

\* token-flag matches, and its replacement leaves the text as it is
SanMasked == <<"x"," ","-","-","t","o","k","e","n"," ","<","R","E","D","A","C","T","E","D",">">>

\* curl-password-data masks the value and leaves the rest of the form data
SanCurl == <<"c","u","r","l"," ","-","d"," ","t","o","k","e","n","=","a","&","b","=","c">>

\* the FullRemove pattern private-key matches
SanKey == <<"e","c","h","o"," ","-","-","-","-","-","B","E","G","I","N"," ","R","S","A"," ","P","R","I","V","A","T","E"," ","K","E","Y","-","-","-","-","-">>

\* token-flag changes the text, then private-key matches
SanTokenKey == <<"-","-","t","o","k","e","n"," ","x"," ","-","-","-","-","-","B","E","G","I","N"," ","P","R","I","V","A","T","E"," ","K","E","Y","-","-","-","-","-">>

\* mysql-password matches twice
SanTwice == <<"a"," ","-","p","x","y"," ","-","p","z","w">>

SanCommands ==
    {SanLs, SanMysql, SanTwo, SanMasked, SanCurl, SanKey, SanTokenKey, SanTwice}

SanNumbered(cs) == [k \in 1..Len(cs) |-> Entry(k, 0, cs[k], FALSE)]

SanInputs == {SanNumbered(cs) : cs \in SeqsUpTo(SanCommands, MaxSanEntries)}

(***************************************************************************)
(* Sanitizer.Process as a state machine: one action per iteration of the   *)
(* pattern loop of sanitizeEntry, one for its return after the loop, one   *)
(* for the return of Process; and SanitizeString, one action per call.     *)
(***************************************************************************)

\* sanitizeEntry(entries[i]) starts with command := entry.Command
CommandAt(entries, i) == IF i <= Len(entries) THEN entries[i].Command ELSE <<>>

\* how a sanitizeEntry call returned: by which FullRemove pattern (0: by the
\* end of the loop), after how many patterns had been tried, with how many
\* mask redactions collected, and the redactions it returned
Returned(index, removedBy, evaluated, masks, emitted) ==
    [index |-> index, removedBy |-> removedBy, evaluated |-> evaluated,
     masks |-> masks, emitted |-> emitted]

SanIdle ==
    /\ sCall = "idle"
    /\ sStrict = FALSE
    /\ sEntries = <<>>
    /\ sIdx = 1
    /\ sPat = 1
    /\ sCommand = <<>>
    /\ sEntryRedactions = <<>>
    /\ sResult = <<>>
    /\ sRedactions = <<>>
    /\ sTrace = <<>>
    /\ sDone = FALSE
    /\ sTexts = <<>>

\* NewSanitizer().WithStrictMode(strict).Process(entries)
ProcessStart ==
    /\ sCall = "Process"
    /\ sStrict \in BOOLEAN
    /\ sEntries \in SanInputs
    /\ sIdx = 1
    /\ sPat = 1
    /\ sCommand = CommandAt(sEntries, 1)
    /\ sEntryRedactions = <<>>
    /\ sResult = <<>>
    /\ sRedactions = <<>>
    /\ sTrace = <<>>
    /\ sDone = FALSE
    /\ sTexts = <<>>

\* NewSanitizer().WithStrictMode(strict).SanitizeString(command)
SanitizeStringStart ==
    /\ sCall = "SanitizeString"
    /\ sStrict \in BOOLEAN
    /\ sEntries = <<>>
    /\ sIdx = 1
    /\ sPat = 1
    /\ sCommand = <<>>
    /\ sEntryRedactions = <<>>
    /\ sResult = <<>>
    /\ sRedactions = <<>>
    /\ sTrace = <<>>
    /\ sDone = FALSE
    /\ sTexts \in {<<c>> : c \in SanCommands}

\* one iteration of `for _, pattern := range s.patterns` in sanitizeEntry; when
\* the FullRemove branch returns, Process appends the returned redactions
SanitizePattern ==
    /\ sCall = "Process"
    /\ ~sDone
    /\ sIdx <= Len(sEntries)
    /\ sPat <= Len(NewSanitizerPatterns)
    /\ LET st == PatternStep(sStrict, sEntries[sIdx], NewSanitizerPatterns[sPat],
                             Locals(sCommand, sEntryRedactions, FALSE))
       IN IF st.removed
          THEN /\ sRedactions' = sRedactions \o st.redactions
               /\ sTrace' = Append(sTrace, Returned(sIdx, sPat, sPat,
                                                    Len(sEntryRedactions), st.redactions))
               /\ sIdx' = sIdx + 1
               /\ sPat' = 1
               /\ sCommand' = CommandAt(sEntries, sIdx + 1)
               /\ sEntryRedactions' = <<>>
               /\ UNCHANGED sResult
          ELSE /\ sPat' = sPat + 1
               /\ sCommand' = st.command
               /\ sEntryRedactions' = st.redactions
               /\ UNCHANGED <<sIdx, sResult, sRedactions, sTrace>>
    /\ UNCHANGED <<sCall, sStrict, sEntries, sDone, sTexts>>
    /\ UNCHANGED <<dedupVars, analyzeVars, runVars, extractVars, callVars>>

\* after the pattern loop: `result.Command = command; return &result, redactions`,
\* and Process appends both
SanitizeEntryReturn ==
    /\ sCall = "Process"
    /\ ~sDone
    /\ sIdx <= Len(sEntries)
    /\ sPat > Len(NewSanitizerPatterns)
    /\ sResult' = Append(sResult, [sEntries[sIdx] EXCEPT !.Command = sCommand])
    /\ sRedactions' = sRedactions \o sEntryRedactions
    /\ sTrace' = Append(sTrace, Returned(sIdx, 0, Len(NewSanitizerPatterns),
                                         Len(sEntryRedactions), sEntryRedactions))
    /\ sIdx' = sIdx + 1
    /\ sPat' = 1
    /\ sCommand' = CommandAt(sEntries, sIdx + 1)
    /\ sEntryRedactions' = <<>>
    /\ UNCHANGED <<sCall, sStrict, sEntries, sDone, sTexts>>
    /\ UNCHANGED <<dedupVars, analyzeVars, runVars, extractVars, callVars>>

\* `return result, redactions`
ProcessReturn ==
    /\ sCall = "Process"
    /\ ~sDone
    /\ sIdx > Len(sEntries)
    /\ sDone' = TRUE
    /\ UNCHANGED <<sCall, sStrict, sEntries, sIdx, sPat, sCommand, sEntryRedactions,
                   sResult, sRedactions, sTrace, sTexts>>
    /\ UNCHANGED <<dedupVars, analyzeVars, runVars, extractVars, callVars>>

\* SanitizeString applied to the result of the previous call
SanitizeStringCall ==
    /\ sCall = "SanitizeString"
    /\ Len(sTexts) <= MaxPasses
    /\ sTexts' = Append(sTexts, SanitizeString(sTexts[Len(sTexts)]))
    /\ UNCHANGED <<sCall, sStrict, sEntries, sIdx, sPat, sCommand, sEntryRedactions,
                   sResult, sRedactions, sTrace, sDone>>
    /\ UNCHANGED <<dedupVars, analyzeVars, runVars, extractVars, callVars>>

(***************************************************************************)
(* IntentAnalyzer (intent.go)                                              *)
(***************************************************************************)

Workflow(name, patterns, description) ==
    [Name |-> name, Patterns |-> patterns, Description |-> description]

DefaultWorkflows == <<
    Workflow("git-commit",
             <<<<"g","i","t"," ","a","d","d">>,
               <<"g","i","t"," ","c","o","m","m","i","t">>,
               <<"g","i","t"," ","p","u","s","h">>>>,
             <<"C","o","m","m","i","t"," ","a","n","d"," ","p","u","s","h"," ","c","h","a","n","g","e","s">>),
    Workflow("git-branch",
             <<<<"g","i","t"," ","c","h","e","c","k","o","u","t">>,
               <<"g","i","t"," ","b","r","a","n","c","h">>,
               <<"g","i","t"," ","s","w","i","t","c","h">>>>,
             <<"B","r","a","n","c","h"," ","m","a","n","a","g","e","m","e","n","t">>),
    Workflow("git-sync",
             <<<<"g","i","t"," ","f","e","t","c","h">>,
               <<"g","i","t"," ","p","u","l","l">>,
               <<"g","i","t"," ","m","e","r","g","e">>,
               <<"g","i","t"," ","r","e","b","a","s","e">>>>,
             <<"S","y","n","c"," ","w","i","t","h"," ","r","e","m","o","t","e">>),
    Workflow("docker-build",
             <<<<"d","o","c","k","e","r"," ","b","u","i","l","d">>,
               <<"d","o","c","k","e","r"," ","t","a","g">>,
               <<"d","o","c","k","e","r"," ","p","u","s","h">>>>,
             <<"B","u","i","l","d"," ","a","n","d"," ","p","u","b","l","i","s","h"," ","c","o","n","t","a","i","n","e","r"," ","i","m","a","g","e">>),
    Workflow("docker-run",
             <<<<"d","o","c","k","e","r"," ","r","u","n">>,
               <<"d","o","c","k","e","r"," ","e","x","e","c">>,
               <<"d","o","c","k","e","r"," ","l","o","g","s">>>>,
             <<"R","u","n"," ","a","n","d"," ","m","a","n","a","g","e"," ","c","o","n","t","a","i","n","e","r","s">>),
    Workflow("docker-compose",
             <<<<"d","o","c","k","e","r","-","c","o","m","p","o","s","e">>,
               <<"d","o","c","k","e","r"," ","c","o","m","p","o","s","e">>>>,
             <<"M","a","n","a","g","e"," ","m","u","l","t","i","-","c","o","n","t","a","i","n","e","r"," ","a","p","p","l","i","c","a","t","i","o","n">>),
    Workflow("npm-build",
             <<<<"n","p","m"," ","i","n","s","t","a","l","l">>,
               <<"n","p","m"," ","r","u","n"," ","b","u","i","l","d">>,
               <<"n","p","m"," ","t","e","s","t">>>>,
             <<"I","n","s","t","a","l","l"," ","d","e","p","e","n","d","e","n","c","i","e","s"," ","a","n","d"," ","b","u","i","l","d">>),
    Workflow("npm-dev",
             <<<<"n","p","m"," ","i","n","s","t","a","l","l">>,
               <<"n","p","m"," ","r","u","n"," ","d","e","v">>,
               <<"n","p","m"," ","s","t","a","r","t">>>>,
             <<"S","e","t"," ","u","p"," ","d","e","v","e","l","o","p","m","e","n","t"," ","e","n","v","i","r","o","n","m","e","n","t">>),
    Workflow("go-build",
             <<<<"g","o"," ","b","u","i","l","d">>,
               <<"g","o"," ","t","e","s","t">>,
               <<"g","o"," ","r","u","n">>>>,
             <<"B","u","i","l","d"," ","a","n","d"," ","t","e","s","t"," ","G","o"," ","a","p","p","l","i","c","a","t","i","o","n">>),
    Workflow("go-mod",
             <<<<"g","o"," ","m","o","d"," ","i","n","i","t">>,
               <<"g","o"," ","m","o","d"," ","t","i","d","y">>,
               <<"g","o"," ","g","e","t">>>>,
             <<"M","a","n","a","g","e"," ","G","o"," ","m","o","d","u","l","e","s">>),
    Workflow("python-venv",
             <<<<"p","y","t","h","o","n"," ","-","m"," ","v","e","n","v">>,
               <<"s","o","u","r","c","e">>,
               <<"p","i","p"," ","i","n","s","t","a","l","l">>>>,
             <<"S","e","t"," ","u","p"," ","P","y","t","h","o","n"," ","v","i","r","t","u","a","l"," ","e","n","v","i","r","o","n","m","e","n","t">>),
    Workflow("kubectl-deploy",
             <<<<"k","u","b","e","c","t","l"," ","a","p","p","l","y">>,
               <<"k","u","b","e","c","t","l"," ","r","o","l","l","o","u","t">>,
               <<"k","u","b","e","c","t","l"," ","g","e","t">>>>,
             <<"D","e","p","l","o","y"," ","t","o"," ","K","u","b","e","r","n","e","t","e","s">>),
    Workflow("kubectl-debug",
             <<<<"k","u","b","e","c","t","l"," ","d","e","s","c","r","i","b","e">>,
               <<"k","u","b","e","c","t","l"," ","l","o","g","s">>,
               <<"k","u","b","e","c","t","l"," ","e","x","e","c">>>>,
             <<"D","e","b","u","g"," ","K","u","b","e","r","n","e","t","e","s"," ","r","e","s","o","u","r","c","e","s">>),
    Workflow("terraform",
             <<<<"t","e","r","r","a","f","o","r","m"," ","i","n","i","t">>,
               <<"t","e","r","r","a","f","o","r","m"," ","p","l","a","n">>,
               <<"t","e","r","r","a","f","o","r","m"," ","a","p","p","l","y">>>>,
             <<"P","r","o","v","i","s","i","o","n"," ","i","n","f","r","a","s","t","r","u","c","t","u","r","e">>),
    Workflow("ssh-scp",
             <<<<"s","s","h">>,
               <<"s","c","p">>,
               <<"r","s","y","n","c">>>>,
             <<"R","e","m","o","t","e"," ","f","i","l","e"," ","o","p","e","r","a","t","i","o","n","s">>)
    >>

\* NewIntentAnalyzer: threshold = 60 * time.Second (in seconds)
DefaultThreshold == 60

\* CommandGroup
CommandGroup(title, description, commands, intent) ==
    [Title |-> title, Description |-> description, Commands |-> commands, Intent |-> intent]

\* strings.Fields: the maximal runs of non-space characters, in order
FieldStarts(s) ==
    {k \in 1..Len(s) : s[k] \notin WhiteSpace /\ (k = 1 \/ s[k - 1] \in WhiteSpace)}

FieldFrom(s, k) ==
    LET stops == {j \in k..Len(s) : s[j] \in WhiteSpace}
    IN SubSeq(s, k, IF stops = {} THEN Len(s) ELSE MinOf(stops) - 1)

Fields(s) ==
    LET starts == FieldStarts(s)
        nth(n) == CHOOSE k \in starts : Cardinality({j \in starts : j <= k}) = n
    IN [n \in 1..Cardinality(starts) |-> FieldFrom(s, nth(n))]

Sudo == <<"s","u","d","o">>

Wrappers == {<<"t","i","m","e">>, <<"n","i","c","e">>, <<"n","o","h","u","p">>}

extractTool(command) ==
    LET parts == Fields(command)
    IN IF Len(parts) = 0 THEN <<>>
       ELSE LET tool == parts[1]
                unsudo == IF tool = Sudo /\ Len(parts) > 1 THEN parts[2] ELSE tool
            IN IF unsudo \in Wrappers /\ Len(parts) > 1 THEN parts[2] ELSE unsudo

\* families that share a tool
Families_Overlapping == {
    {<<"g","i","t">>, <<"g","h">>},
    {<<"g","h">>, <<"g","o">>}
    }

\* the tool families of areRelatedTools
Families == {
    {<<"g","i","t">>, <<"g","h">>},
    {<<"d","o","c","k","e","r">>, <<"d","o","c","k","e","r","-","c","o","m","p","o","s","e">>},
    {<<"k","u","b","e","c","t","l">>, <<"h","e","l","m">>, <<"k","9","s">>},
    {<<"n","p","m">>, <<"n","p","x">>, <<"y","a","r","n">>, <<"p","n","p","m">>},
    {<<"g","o">>, <<"g","o","f","m","t">>, <<"g","o","l","a","n","g","c","i","-","l","i","n","t">>},
    {<<"p","y","t","h","o","n">>, <<"p","i","p">>, <<"p","y","t","h","o","n","3">>, <<"p","i","p","3">>},
    {<<"t","e","r","r","a","f","o","r","m">>, <<"t","f">>},
    {<<"a","w","s">>, <<"a","w","s","c","l","i">>},
    {<<"g","c","l","o","u","d">>, <<"g","s","u","t","i","l">>},
    {<<"a","z">>, <<"a","z","u","r","e">>}
    }

areRelatedTools(a, b) ==
    \/ a = b
    \/ \E family \in Families : a \in family /\ b \in family

\* inferIntent returning the last workflow with a prefix of command
inferIntent_LastMatch(workflows, command) ==
    LET matching == {w \in 1..Len(workflows) :
                        \E p \in 1..Len(workflows[w].Patterns) :
                            HasPrefix(command, workflows[w].Patterns[p])}
    IN IF matching = {} THEN "" ELSE workflows[MaxOf(matching)].Name

\* WithWorkflows: append(a.workflows, workflows...)
WithWorkflows(current, workflows) == current \o workflows

\* inferIntent: the Name of the first workflow with a prefix of command, "" if none
inferIntent(workflows, command) ==
    LET matching == {w \in 1..Len(workflows) :
                        \E p \in 1..Len(workflows[w].Patterns) :
                            HasPrefix(command, workflows[w].Patterns[p])}
    IN IF matching = {} THEN "" ELSE workflows[MinOf(matching)].Name

hasTimeGap(threshold, prev, curr) ==
    IF ~prev.HasTime \/ ~curr.HasTime THEN FALSE
    ELSE curr.Timestamp - prev.Timestamp > threshold

\* the switch of generateTitle
TitleFor(primaryTool) ==
    CASE primaryTool \in {<<"g","i","t">>} ->
           <<"G","i","t"," ","o","p","e","r","a","t","i","o","n","s">>
      [] primaryTool \in {<<"d","o","c","k","e","r">>, <<"d","o","c","k","e","r","-","c","o","m","p","o","s","e">>} ->
           <<"D","o","c","k","e","r"," ","o","p","e","r","a","t","i","o","n","s">>
      [] primaryTool \in {<<"k","u","b","e","c","t","l">>, <<"h","e","l","m">>} ->
           <<"K","u","b","e","r","n","e","t","e","s"," ","o","p","e","r","a","t","i","o","n","s">>
      [] primaryTool \in {<<"n","p","m">>, <<"y","a","r","n">>, <<"p","n","p","m">>} ->
           <<"N","o","d","e",".","j","s"," ","p","a","c","k","a","g","e"," ","o","p","e","r","a","t","i","o","n","s">>
      [] primaryTool \in {<<"g","o">>} ->
           <<"G","o"," ","o","p","e","r","a","t","i","o","n","s">>
      [] primaryTool \in {<<"p","y","t","h","o","n">>, <<"p","i","p">>, <<"p","y","t","h","o","n","3">>} ->
           <<"P","y","t","h","o","n"," ","o","p","e","r","a","t","i","o","n","s">>
      [] primaryTool \in {<<"t","e","r","r","a","f","o","r","m">>, <<"t","f">>} ->
           <<"T","e","r","r","a","f","o","r","m"," ","o","p","e","r","a","t","i","o","n","s">>
      [] primaryTool \in {<<"s","s","h">>, <<"s","c","p">>, <<"r","s","y","n","c">>} ->
           <<"R","e","m","o","t","e"," ","o","p","e","r","a","t","i","o","n","s">>
      [] primaryTool \in {<<"c","u","r","l">>, <<"w","g","e","t">>} ->
           <<"H","T","T","P"," ","r","e","q","u","e","s","t","s">>
      [] primaryTool \in {<<"c","d">>, <<"l","s">>, <<"m","k","d","i","r">>, <<"r","m">>, <<"c","p">>, <<"m","v">>} ->
           <<"F","i","l","e"," ","s","y","s","t","e","m"," ","o","p","e","r","a","t","i","o","n","s">>
      [] OTHER ->
           IF primaryTool # <<>> THEN primaryTool \o <<" ","o","p","e","r","a","t","i","o","n","s">>
           ELSE <<"S","h","e","l","l"," ","c","o","m","m","a","n","d","s">>

\* generateTitle's `tools` map: the count of each non-empty tool
ToolCount(commands, tool) ==
    Cardinality({k \in 1..Len(commands) : extractTool(commands[k].Command) = tool})

\* generateTitle, as the set of titles it can return: `range tools` visits the
\* map in an unspecified order and the first tool of the largest count wins,
\* so each tool of the largest count can be the primary tool
generateTitle(commands) ==
    IF Len(commands) = 0 THEN {<<"C","o","m","m","a","n","d","s">>}
    ELSE LET tools == {extractTool(commands[k].Command) : k \in 1..Len(commands)} \ {<<>>}
             primary == {t \in tools :
                            \A u \in tools : ToolCount(commands, t) >= ToolCount(commands, u)}
         IN IF tools = {} THEN {TitleFor(<<>>)} ELSE {TitleFor(t) : t \in primary}

generateDescription(commands) == <<>>

\* finalizeGroup, as the set of groups it can leave
finalizeGroup(workflows, group) ==
    LET named == {w \in 1..Len(workflows) : workflows[w].Name = group.Intent}
        byIntent == IF group.Intent # "" /\ named # {}
                    THEN workflows[MinOf(named)].Description ELSE group.Title
        titles == IF byIntent = <<>> THEN generateTitle(group.Commands) ELSE {byIntent}
    IN {[group EXCEPT !.Title = t, !.Description = generateDescription(group.Commands)] :
            t \in titles}

StartsNewGroup_IgnoresIntent(workflows, threshold, entries, i, current) ==
    IF current = <<>> THEN TRUE
    ELSE IF i > 1
    THEN LET prevEntry == entries[i - 1]
         IN \/ ~areRelatedTools(extractTool(prevEntry.Command), extractTool(entries[i].Command))
            \/ hasTimeGap(threshold, prevEntry, entries[i])
    ELSE FALSE

\* Analyze: whether entries[i] starts a new group, given currentGroup
\* (<<>> for nil)
StartsNewGroup(workflows, threshold, entries, i, current) ==
    IF current = <<>> THEN TRUE
    ELSE IF i > 1
    THEN LET prevEntry == entries[i - 1]
         IN \/ ~areRelatedTools(extractTool(prevEntry.Command), extractTool(entries[i].Command))
            \/ hasTimeGap(threshold, prevEntry, entries[i])
            \/ /\ current[1].Intent # ""
               /\ current[1].Intent # inferIntent(workflows, entries[i].Command)
    ELSE FALSE

\* currentGroup = &CommandGroup{Commands: []history.Entry{entry}, Intent: intent}
NewGroup(entry, intent) == CommandGroup(<<>>, <<>>, <<entry>>, intent)

AppendToGroup_Dropped(group, entry, intent) ==
    [group EXCEPT !.Intent = IF intent # "" /\ group.Intent = "" THEN intent ELSE @]

\* the else branch without the intent update
AppendToGroup_NoAdopt(group, entry, intent) ==
    [group EXCEPT !.Commands = Append(@, entry)]

\* the else branch: append the entry, adopt the intent if the group has none
AppendToGroup(group, entry, intent) ==
    [group EXCEPT !.Commands = Append(@, entry),
                  !.Intent = IF intent # "" /\ group.Intent = "" THEN intent ELSE @]

\* the range loop of Analyze from entry i on, without the finalizeGroup calls:
\* the groups in order, the last one being currentGroup
RECURSIVE AnalyzeFrom(_, _, _, _, _, _)
AnalyzeFrom(workflows, threshold, entries, i, groups, current) ==
    IF i > Len(entries) THEN groups \o current
    ELSE LET intent == inferIntent(workflows, entries[i].Command)
         IN IF StartsNewGroup(workflows, threshold, entries, i, current)
            THEN AnalyzeFrom(workflows, threshold, entries, i + 1, groups \o current,
                             <<NewGroup(entries[i], intent)>>)
            ELSE AnalyzeFrom(workflows, threshold, entries, i + 1, groups,
                             <<AppendToGroup(current[1], entries[i], intent)>>)

\* Analyze, as the set of group sequences it can return
Analyze(workflows, threshold, entries) ==
    LET open == AnalyzeFrom(workflows, threshold, entries, 1, <<>>, <<>>)
        finals == UNION {finalizeGroup(workflows, open[k]) : k \in 1..Len(open)}
    IN {gs \in [1..Len(open) -> finals] :
            \A k \in 1..Len(open) : gs[k] \in finalizeGroup(workflows, open[k])}

(***************************************************************************)
(* Analyzer inputs.                                                        *)
(***************************************************************************)

\* the longest input of Analyze
MaxAnalyzeEntries == 3

\* git, intent git-commit
CmdGitAdd == <<"g","i","t"," ","a","d","d"," ",".">>

\* git, intent git-sync
CmdGitPull == <<"g","i","t"," ","p","u","l","l">>

\* gh: in the family of git, no intent
CmdGhPr == <<"g","h"," ","p","r"," ","l","i","s","t">>

\* docker behind sudo, no intent
CmdSudoDocker == <<"s","u","d","o"," ","d","o","c","k","e","r"," ","b","u","i","l","d"," ",".">>

\* intent "deploy" under the custom workflow only
CmdDeploy == <<"d","e","p","l","o","y"," ","n","o","w">>

CustomWorkflows == <<Workflow("deploy", <<<<"d","e","p","l","o","y">>>>, <<>>)>>

\* CmdGitStatus is git without intent; CmdLs is related to no other tool here
AnalyzeCommands == {CmdGitAdd, CmdGitPull, CmdGhPr, CmdGitStatus, CmdSudoDocker, CmdLs, CmdDeploy}

\* seconds: 60 is exactly the default threshold after 0, 121 more than it after 60
AnalyzeTimes == {0, 60, 121}

AnalyzeChoices ==
    [c : AnalyzeCommands, t : {NoTime}]
        \cup [c : {CmdGhPr}, t : {[has |-> TRUE, ts |-> t] : t \in AnalyzeTimes}]

AnalyzeInputs == {Numbered(cs) : cs \in SeqsUpTo(AnalyzeChoices, MaxAnalyzeEntries)}

(***************************************************************************)
(* IntentAnalyzer.Analyze as a state machine: one action per iteration of  *)
(* the range loop, one for the return.                                     *)
(***************************************************************************)

AnalyzeIdle ==
    /\ aWorkflows = <<>>
    /\ aThreshold = 0
    /\ aEntries = <<>>
    /\ aI = 0
    /\ aGroups = <<>>
    /\ aCurrent = <<>>
    /\ aDone = FALSE

\* NewIntentAnalyzer(), WithWorkflows and WithThreshold, then Analyze(entries)
AnalyzeStart ==
    /\ aWorkflows \in {DefaultWorkflows, WithWorkflows(DefaultWorkflows, CustomWorkflows)}
    /\ aThreshold \in {DefaultThreshold, 2 * DefaultThreshold}
    /\ aEntries \in AnalyzeInputs
    /\ aI = 1
    /\ aGroups = <<>>
    /\ aCurrent = <<>>
    /\ aDone = FALSE

\* the body of `for i, entry := range entries`
AnalyzeIterate ==
    /\ ~aDone
    /\ aI >= 1
    /\ aI <= Len(aEntries)
    /\ LET entry == aEntries[aI]
           intent == inferIntent(aWorkflows, entry.Command)
       IN IF StartsNewGroup(aWorkflows, aThreshold, aEntries, aI, aCurrent)
          THEN /\ IF aCurrent # <<>>
                  THEN \E g \in finalizeGroup(aWorkflows, aCurrent[1]) :
                           aGroups' = Append(aGroups, g)
                  ELSE aGroups' = aGroups
               /\ aCurrent' = <<NewGroup(entry, intent)>>
          ELSE /\ aCurrent' = <<AppendToGroup(aCurrent[1], entry, intent)>>
               /\ aGroups' = aGroups
    /\ aI' = aI + 1
    /\ UNCHANGED <<aWorkflows, aThreshold, aEntries, aDone>>
    /\ UNCHANGED <<dedupVars, sanVars, runVars, extractVars, callVars>>

\* `return nil` for an empty input; after the loop, the last group is
\* finalized and appended, `return groups`
AnalyzeReturn ==
    /\ ~aDone
    /\ aI >= 1
    /\ aI > Len(aEntries)
    /\ IF Len(aEntries) # 0 /\ aCurrent # <<>>
       THEN \E g \in finalizeGroup(aWorkflows, aCurrent[1]) :
                aGroups' = Append(aGroups, g)
       ELSE aGroups' = aGroups
    /\ aDone' = TRUE
    /\ UNCHANGED <<aWorkflows, aThreshold, aEntries, aI, aCurrent>>
    /\ UNCHANGED <<dedupVars, sanVars, runVars, extractVars, callVars>>

(***************************************************************************)
(* Extractor (package history): Extract reads the history file line by     *)
(* line.                                                                   *)
(***************************************************************************)

\* zshPattern without its anchors: ": " digits ":" digits ";" and the rest
zshPattern ==
    Lit(<<":"," ">>) \o Group(1, <<Set(Digit, 1, Unbounded)>>) \o Lit(<<":">>)
        \o <<Set(Digit, 1, Unbounded)>> \o Lit(<<";">>)
        \o Group(2, <<NotSet({"\n"}, 0, Unbounded)>>)

\* Regexp.FindStringSubmatch for a pattern anchored by ^ and $: <<>> for nil,
\* else the whole match and the two groups (matches[0], matches[1], matches[2])
FindStringSubmatch(re, line) ==
    LET r == MatchHere(re, line, 1, NoCaptures)
    IN IF r.ok /\ r.end = Len(line) + 1
       THEN <<line, SubSeq(line, r.caps[1].s, r.caps[1].e - 1),
              SubSeq(line, r.caps[2].s, r.caps[2].e - 1)>>
       ELSE <<>>

DigitValue(c) == CHOOSE v \in 0..9 : <<"0","1","2","3","4","5","6","7","8","9">>[v + 1] = c

RECURSIVE Significant(_)
Significant(digits) ==
    IF digits # <<>> /\ Head(digits) = "0" THEN Significant(Tail(digits)) ELSE digits

RECURSIVE Decimal(_)
Decimal(digits) ==
    IF digits = <<>> THEN 0
    ELSE Decimal(SubSeq(digits, 1, Len(digits) - 1)) * 10 + DigitValue(digits[Len(digits)])

\* the longest decimal numbers of an int64 have 19 digits
Int64Digits == 19

\* strconv.ParseInt(s, 10, 64) of a string of digits: a number of more than
\* Int64Digits significant digits is out of range, the value is then the
\* largest int64 (value 0 here, never read). The inputs have no number of 10
\* to 19 digits.
ParseInt(s) ==
    LET digits == Significant(s)
    IN IF Len(digits) > Int64Digits THEN [value |-> 0, err |-> TRUE]
       ELSE [value |-> Decimal(digits), err |-> FALSE]

\* time.Unix(1<<63 - 1, 0) in seconds: adding the offset of the Unix epoch
\* wraps around to an instant further in the past than any Duration, so that
\* Sub saturates; it stands here as an instant a billion seconds before 0
UnixOfMaxInt64 == -1000000000

\* `ts, _ := strconv.ParseInt(...)` and time.Unix(ts, 0), in seconds
Unix(parsed) == IF parsed.err THEN UnixOfMaxInt64 ELSE parsed.value

\* the locals of the scan loop
Scan(commandNumber, entries, stop) ==
    [commandNumber |-> commandNumber, entries |-> entries, stop |-> stop]

ScanLine_CountsEveryLine(from, to, line, st) ==
    LET matches == FindStringSubmatch(zshPattern, line)
        n == st.commandNumber + 1
    IN IF matches = <<>> \/ n < from THEN Scan(n, st.entries, FALSE)
       ELSE IF n > to THEN Scan(n, st.entries, TRUE)
       ELSE Scan(n, Append(st.entries,
                           Entry(n, Unix(ParseInt(matches[2])), matches[3], TRUE)), FALSE)

\* the body of `for scanner.Scan()` for one line
ScanLine(from, to, line, st) ==
    LET matches == FindStringSubmatch(zshPattern, line)
        n == st.commandNumber + 1
    IN IF matches = <<>> THEN st
       ELSE IF n < from THEN Scan(n, st.entries, FALSE)
       ELSE IF n > to THEN Scan(n, st.entries, TRUE)
       ELSE Scan(n, Append(st.entries,
                           Entry(n, Unix(ParseInt(matches[2])), matches[3], TRUE)), FALSE)

(***************************************************************************)
(* Inputs of Extract.                                                      *)
(***************************************************************************)

\* the longest history file
MaxLines == 3

LineLs == <<":"," ","1","0","0",":","0",";","l","s">>

LineGitAdd == <<":"," ","1","6","1",":","0",";","g","i","t"," ","a","d","d"," ",".">>

\* the second line of a command entered over two lines
LineContinuation == <<" "," ","-","m"," ","f","i","x">>

LineBlank == <<>>

\* a time stamp beyond the largest int64
LineOverflow == <<":"," ","9","9","9","9","9","9","9","9","9","9","9","9","9","9","9","9","9","9","9","9",":","0",";","l","s">>

\* no time stamp
LineNoStamp == <<":"," ",":","0",";","p","w","d">>

\* an empty command
LineNoCommand == <<":"," ","5",":","0",";">>

HistoryLines ==
    {LineLs, LineGitAdd, LineContinuation, LineBlank, LineOverflow, LineNoStamp,
     LineNoCommand}

Froms == {0, 1, 2, 3}

Tos == {1, 2, 3}

(***************************************************************************)
(* Extract as a state machine: one action per line scanned.                *)
(***************************************************************************)

ExtractIdle ==
    /\ xLines = <<>>
    /\ xFrom = 0
    /\ xTo = 0
    /\ xPos = 0
    /\ xNumber = 0
    /\ xEntries = <<>>
    /\ xStop = FALSE
    /\ xErr = "nil"
    /\ xDone = FALSE

\* Extract(from, to) on a history file
ExtractStart ==
    /\ xLines \in SeqsUpTo(HistoryLines, MaxLines)
    /\ xFrom \in Froms
    /\ xTo \in Tos
    /\ xPos = 1
    /\ xNumber = 0
    /\ xEntries = <<>>
    /\ xStop = FALSE
    /\ xErr = "nil"
    /\ xDone = FALSE

\* `if from > to { return nil, ErrInvalidRange }`
ExtractInvalidRange ==
    /\ xPos = 1
    /\ ~xDone
    /\ xFrom > xTo
    /\ xErr' = "ErrInvalidRange"
    /\ xDone' = TRUE
    /\ UNCHANGED <<xLines, xFrom, xTo, xPos, xNumber, xEntries, xStop>>
    /\ UNCHANGED <<dedupVars, sanVars, analyzeVars, runVars, callVars>>

\* os.Open fails
ExtractUnreadable ==
    /\ xPos = 1
    /\ ~xDone
    /\ xFrom <= xTo
    /\ xErr' = "ErrUnreadableFile"
    /\ xDone' = TRUE
    /\ UNCHANGED <<xLines, xFrom, xTo, xPos, xNumber, xEntries, xStop>>
    /\ UNCHANGED <<dedupVars, sanVars, analyzeVars, runVars, callVars>>

\* one iteration of `for scanner.Scan()`
ExtractScan ==
    /\ xPos >= 1
    /\ ~xDone
    /\ xFrom <= xTo
    /\ ~xStop
    /\ xPos <= Len(xLines)
    /\ LET st == ScanLine(xFrom, xTo, xLines[xPos], Scan(xNumber, xEntries, FALSE))
       IN /\ xNumber' = st.commandNumber
          /\ xEntries' = st.entries
          /\ xStop' = st.stop
    /\ xPos' = xPos + 1
    /\ UNCHANGED <<xLines, xFrom, xTo, xErr, xDone>>
    /\ UNCHANGED <<dedupVars, sanVars, analyzeVars, runVars, callVars>>

\* after the loop: ErrEmptyResult for no entries, else the entries
ExtractReturn ==
    /\ xPos >= 1
    /\ ~xDone
    /\ xFrom <= xTo
    /\ xStop \/ xPos > Len(xLines)
    /\ xErr' = IF Len(xEntries) = 0 THEN "ErrEmptyResult" ELSE "nil"
    /\ xDone' = TRUE
    /\ UNCHANGED <<xLines, xFrom, xTo, xPos, xNumber, xEntries, xStop>>
    /\ UNCHANGED <<dedupVars, sanVars, analyzeVars, runVars, callVars>>

\* what Extract returned: nil with an error
Extracted == IF xErr = "nil" THEN xEntries ELSE <<>>

(***************************************************************************)
(* Package ai: the optional enhancement collaborator (ai/dedup.go,         *)
(* ai/explain.go).  A response of Client.sendMessage is an error or a      *)
(* text; of a text the code reads whether it holds a JSON object           *)
(* (a "{" before the last "}"), whether that object parses, and its        *)
(* fields.                                                                 *)
(***************************************************************************)

Response(err, object, parses, fields) ==
    [err |-> err, object |-> object, parses |-> parses, fields |-> fields]

\* ai.CommandGroup, indices 0-based as in the Go code
DedupGroup(representative, indices, reason) ==
    [Representative |-> representative, Indices |-> indices, Reason |-> reason]

\* StepExplanation
StepExplanation(title, description, why) ==
    [Title |-> title, Description |-> description, Why |-> why]

\* the user message of DeduplicateCommands: one line per entry's Command;
\* none is sent for an empty slice
DedupMessage(entries) ==
    IF Len(entries) = 0 THEN <<>>
    ELSE <<[by |-> "DeduplicateCommands",
            commands |-> [k \in 1..Len(entries) |-> entries[k].Command]]>>

\* Client.DeduplicateCommands, given the response to its message
DeduplicateCommands(entries, response) ==
    IF Len(entries) = 0 THEN [err |-> FALSE, Groups |-> <<>>]
    ELSE IF response.err THEN [err |-> TRUE, Groups |-> <<>>]
    ELSE IF response.object /\ ~response.parses THEN [err |-> FALSE, Groups |-> <<>>]
    ELSE IF response.object THEN [err |-> FALSE, Groups |-> response.fields]
    ELSE [err |-> FALSE, Groups |-> <<>>]

\* the elements of seq at the positions in keep, in order
Pick(seq, keep) ==
    LET nth(n) == CHOOSE k \in keep : Cardinality({j \in keep : j <= k}) = n
    IN [n \in 1..Cardinality(keep) |-> seq[nth(n)]]

\* ai.ApplyDedup
ApplyDedup(entries, groups) ==
    IF Len(groups) = 0 THEN [entries |-> entries, summaries |-> <<>>]
    ELSE LET removeSet == {idx \in 0..(Len(entries) - 1) :
                              \E g \in 1..Len(groups) :
                                  /\ idx # groups[g].Representative
                                  /\ \E k \in 1..Len(groups[g].Indices) :
                                         groups[g].Indices[k] = idx}
             reasons == {g \in 1..Len(groups) : groups[g].Reason # ""}
         IN [entries |-> Pick(entries, {i \in 1..Len(entries) : (i - 1) \notin removeSet}),
             summaries |-> [n \in 1..Cardinality(reasons) |->
                               Pick(groups, reasons)[n].Reason]]

\* the commands of all groups, in order
RECURSIVE GroupCommands(_)
GroupCommands(groups) ==
    IF groups = <<>> THEN <<>>
    ELSE [k \in 1..Len(Head(groups).Commands) |-> Head(groups).Commands[k].Command]
             \o GroupCommands(Tail(groups))

\* the user message of GenerateExplanations: each group's title and the
\* Command of each of its entries; none is sent for no groups
ExplainMessage(groups) ==
    IF Len(groups) = 0 THEN <<>>
    ELSE <<[by |-> "GenerateExplanations", commands |-> GroupCommands(groups)]>>

NoExplanations == [Overview |-> "", Steps |-> <<>>]

\* Client.GenerateExplanations, given the response to its message
GenerateExplanations(groups, response) ==
    IF Len(groups) = 0 THEN [err |-> FALSE, result |-> NoExplanations]
    ELSE IF response.err THEN [err |-> TRUE, result |-> NoExplanations]
    ELSE IF response.object /\ ~response.parses THEN [err |-> FALSE, result |-> NoExplanations]
    ELSE IF response.object THEN [err |-> FALSE, result |-> response.fields]
    ELSE [err |-> FALSE, result |-> NoExplanations]

EnhanceGroups_Truncated(groups, explanations) ==
    [i \in 1..MinOf({Len(groups), Len(explanations.Steps)}) |->
        [groups[i] EXCEPT !.Title = explanations.Steps[i].Title]]

\* ai.EnhanceGroups
EnhanceGroups(groups, explanations) ==
    IF Len(explanations.Steps) = 0 THEN groups
    ELSE [i \in 1..Len(groups) |->
            IF i <= Len(explanations.Steps)
            THEN LET exp == explanations.Steps[i]
                 IN [groups[i] EXCEPT
                        !.Title = IF exp.Title # <<>> THEN exp.Title ELSE @,
                        !.Description = IF exp.Description # <<>> THEN exp.Description ELSE @,
                        !.Intent = IF exp.Why # "" THEN exp.Why ELSE @]
            ELSE groups[i]]

(***************************************************************************)
(* Inputs of run: the extracted history and the collaborator's responses.  *)
(***************************************************************************)

\* the longest extracted history
MaxRunEntries == 2

\* Extract gives every entry HasTime = true and returns ErrEmptyResult
\* rather than an empty slice
RunInputs ==
    {[k \in 1..Len(cs) |-> Entry(k, 0, cs[k], TRUE)] :
        cs \in SeqsUpTo({CmdLs, CmdGitAdd, SanMysql}, MaxRunEntries) \ {<<>>}}

ErrorResponse == Response(TRUE, FALSE, FALSE, <<>>)

\* a text without a JSON object
ProseResponse == Response(FALSE, FALSE, FALSE, <<>>)

\* a text with braces that json.Unmarshal rejects
BrokenResponse == Response(FALSE, TRUE, FALSE, <<>>)

DedupResponses ==
    {ErrorResponse, ProseResponse, BrokenResponse}
        \cup {Response(FALSE, TRUE, TRUE, groups) :
                 groups \in {<<>>,
                             <<DedupGroup(1, <<0, 1>>, "repeated")>>,
                             <<DedupGroup(0, <<0, 1>>, "")>>,
                             <<DedupGroup(7, <<1, 0, 0>>, "no such representative")>>,
                             <<DedupGroup(0, <<-1, 2, 1>>, "out of range"),
                               DedupGroup(1, <<>>, "empty")>>}}

AITitle == <<"S","t","a","g","e"," ","t","h","e"," ","c","h","a","n","g","e","s">>

ExplainResponses ==
    {ErrorResponse, ProseResponse, BrokenResponse}
        \cup {Response(FALSE, TRUE, TRUE, [Overview |-> "overview", Steps |-> steps]) :
                 steps \in {<<>>,
                            <<StepExplanation(AITitle, <<>>, "why")>>,
                            <<StepExplanation(<<>>, AITitle, ""),
                              StepExplanation(AITitle, AITitle, "why"),
                              StepExplanation(AITitle, <<>>, "")>>}}

\* how DeduplicateCommands came to its answer
DedupKind(response) ==
    IF response.err THEN "error"
    ELSE IF ~response.object THEN "no-object"
    ELSE IF ~response.parses THEN "unparsable"
    ELSE "parsed"

(***************************************************************************)
(* run (cli/root.go) as a state machine: one action per pipeline step.     *)
(***************************************************************************)

RunIdle ==
    /\ rPc = "idle"
    /\ rAI = FALSE
    /\ rExtracted = <<>>
    /\ rEntries = <<>>
    /\ rDedup = "none"
    /\ rSanitized = FALSE
    /\ rRedactions = <<>>
    /\ rGroups = <<>>
    /\ rSent = <<>>
    /\ rData = <<>>
    /\ rErr = "nil"

\* ai.Available() is read from the environment
RunStart ==
    /\ rPc = "extract"
    /\ rAI \in BOOLEAN
    /\ rExtracted = <<>>
    /\ rEntries = <<>>
    /\ rDedup = "none"
    /\ rSanitized = FALSE
    /\ rRedactions = <<>>
    /\ rGroups = <<>>
    /\ rSent = <<>>
    /\ rData = <<>>
    /\ rErr = "nil"

\* NewExtractor and Extract: an error returns from run
RunExtract ==
    /\ rPc = "extract"
    /\ \/ /\ rErr' = "extract"
          /\ rPc' = "done"
          /\ UNCHANGED <<rExtracted, rEntries>>
       \/ /\ \E entries \in RunInputs :
                 /\ rExtracted' = entries
                 /\ rEntries' = entries
          /\ rPc' = "dedup"
          /\ rErr' = rErr
    /\ UNCHANGED <<rAI, rDedup, rSanitized, rRedactions, rGroups, rSent, rData>>
    /\ UNCHANGED <<dedupVars, sanVars, analyzeVars, extractVars, callVars>>

\* aiClient != nil: DeduplicateCommands on `entries`, then Dedup.Process if
\* it returned an error, else ApplyDedup
RunDedupAI ==
    /\ rPc = "dedup"
    /\ rAI
    /\ \E response \in DedupResponses :
           LET answer == DeduplicateCommands(rEntries, response)
               sent == DedupMessage(rEntries)
           IN /\ rSent' = rSent \o [k \in 1..Len(sent) |->
                                       [by |-> sent[k].by, commands |-> sent[k].commands,
                                        sanitized |-> rSanitized]]
              /\ rDedup' = DedupKind(response)
              /\ rEntries' = IF answer.err THEN DedupProcess(rEntries)
                             ELSE ApplyDedup(rEntries, answer.Groups).entries
    /\ rPc' = "sanitize"
    /\ UNCHANGED <<rAI, rExtracted, rSanitized, rRedactions, rGroups, rData, rErr>>
    /\ UNCHANGED <<dedupVars, sanVars, analyzeVars, extractVars, callVars>>

\* aiClient == nil: Dedup.Process
RunDedupLocal ==
    /\ rPc = "dedup"
    /\ ~rAI
    /\ rEntries' = DedupProcess(rEntries)
    /\ rDedup' = "local"
    /\ rPc' = "sanitize"
    /\ UNCHANGED <<rAI, rExtracted, rSanitized, rRedactions, rGroups, rSent, rData, rErr>>
    /\ UNCHANGED <<dedupVars, sanVars, analyzeVars, extractVars, callVars>>

\* NewSanitizer().Process(entries)
RunSanitize ==
    /\ rPc = "sanitize"
    /\ LET r == SanitizerProcess(FALSE, NewSanitizerPatterns, rEntries)
       IN /\ rEntries' = r.result
          /\ rRedactions' = r.redactions
    /\ rSanitized' = TRUE
    /\ rPc' = "analyze"
    /\ UNCHANGED <<rAI, rExtracted, rDedup, rGroups, rSent, rData, rErr>>
    /\ UNCHANGED <<dedupVars, sanVars, analyzeVars, extractVars, callVars>>

\* NewIntentAnalyzer().Analyze(entries)
RunAnalyze ==
    /\ rPc = "analyze"
    /\ rGroups' \in Analyze(DefaultWorkflows, DefaultThreshold, rEntries)
    /\ rPc' = IF rAI THEN "explain" ELSE "generate"
    /\ UNCHANGED <<rAI, rExtracted, rEntries, rDedup, rSanitized, rRedactions, rSent,
                   rData, rErr>>
    /\ UNCHANGED <<dedupVars, sanVars, analyzeVars, extractVars, callVars>>

\* aiClient != nil: GenerateExplanations on `groups`, EnhanceGroups unless it
\* returned an error
RunExplain ==
    /\ rPc = "explain"
    /\ \E response \in ExplainResponses :
           LET answer == GenerateExplanations(rGroups, response)
               sent == ExplainMessage(rGroups)
           IN /\ rSent' = rSent \o [k \in 1..Len(sent) |->
                                       [by |-> sent[k].by, commands |-> sent[k].commands,
                                        sanitized |-> rSanitized]]
              /\ rGroups' = IF answer.err THEN rGroups
                            ELSE EnhanceGroups(rGroups, answer.result)
    /\ rPc' = "generate"
    /\ UNCHANGED <<rAI, rExtracted, rEntries, rDedup, rSanitized, rRedactions, rData, rErr>>
    /\ UNCHANGED <<dedupVars, sanVars, analyzeVars, extractVars, callVars>>

\* the RunbookData handed to the generator; writing the output file can fail
RunGenerate ==
    /\ rPc = "generate"
    /\ rData' = <<[Groups |-> rGroups, RedactedCount |-> Len(rRedactions)]>>
    /\ rErr' \in {"nil", "write"}
    /\ rPc' = "done"
    /\ UNCHANGED <<rAI, rExtracted, rEntries, rDedup, rSanitized, rRedactions, rGroups,
                   rSent>>
    /\ UNCHANGED <<dedupVars, sanVars, analyzeVars, extractVars, callVars>>

(***************************************************************************)
(* Functions called on their own: the arguments are drawn at the start,    *)
(* one action per function applies it.                                     *)
(***************************************************************************)

CallIdle ==
    /\ pFun = ""
    /\ pArgs = <<>>
    /\ pOut = <<>>

\* the call of function f has not returned
Calling(f) == pFun = f /\ pOut = <<>>

\* the call of function f has returned
Called(f) == pFun = f /\ pOut # <<>>

\* the function returns
Return(value) ==
    /\ pOut' = <<value>>
    /\ UNCHANGED <<pFun, pArgs>>
    /\ UNCHANGED <<dedupVars, sanVars, analyzeVars, runVars, extractVars>>

\* words joined by single spaces
RECURSIVE Join(_)
Join(words) ==
    IF words = <<>> THEN <<>>
    ELSE IF Len(words) = 1 THEN words[1]
    ELSE words[1] \o <<" ">> \o Join(Tail(words))

\* the most wrappers before a command
MaxWrappers == 2

\* commands under up to MaxWrappers wrappers, wrappers alone, and blank ones
ToolCommands ==
    {Join(ws \o rest) :
        ws \in SeqsUpTo(Wrappers \cup {Sudo}, MaxWrappers),
        rest \in {<<>>, <<CmdLs>>, <<<<"g","i","t">>, <<"a","d","d">>>>}}
    \cup {CmdBlank, CmdLsPadded}

\* extractTool(command)
CallExtractTool ==
    /\ Calling("extractTool")
    /\ Return(extractTool(pArgs[1]))

\* custom workflows whose prefixes also match commands of built-in workflows
ShadowWorkflows == <<
    Workflow("mine", <<<<"g","i","t">>, <<"n","p","m"," ","i","n","s","t","a","l","l">>>>, <<>>),
    Workflow("deploy", <<<<"d","e","p","l","o","y">>, <<"s","s","h">>>>, <<>>)
    >>

CmdNpmInstall == <<"n","p","m"," ","i","n","s","t","a","l","l"," ","l","e","f","t","-","p","a","d">>

CmdNpmStart == <<"n","p","m"," ","s","t","a","r","t">>

CmdSshHost == <<"s","s","h"," ","h","o","s","t">>

\* a built-in prefix after a leading space
CmdGitAddPadded == <<" ","g","i","t"," ","a","d","d"," ",".">>

IntentCommands ==
    AnalyzeCommands \cup {CmdNpmInstall, CmdNpmStart, CmdSshHost, CmdGitAddPadded, CmdBlank}

\* NewIntentAnalyzer(), with or without WithWorkflows
IntentWorkflows ==
    {DefaultWorkflows,
     WithWorkflows(DefaultWorkflows, CustomWorkflows),
     WithWorkflows(DefaultWorkflows, ShadowWorkflows),
     WithWorkflows(WithWorkflows(DefaultWorkflows, ShadowWorkflows), CustomWorkflows)}

\* a.inferIntent(command)
CallInferIntent ==
    /\ Calling("inferIntent")
    /\ Return(inferIntent(pArgs[1], pArgs[2]))

\* the longest text given to levenshteinDistance, in characters
MaxTextLen == 3

\* the characters of those texts: two ASCII letters and the letter e with an
\* acute accent (U+00E9)
EAcute == "e-acute"

TextCharacters == {"a", "b", EAcute}

\* the bytes of a character in a Go string (UTF-8): U+00E9 is 0xC3 0xA9
UTF8(character) ==
    IF character = EAcute THEN <<"0xC3", "0xA9">> ELSE <<character>>

\* the Go string of a text: what len() counts and what a[i] indexes
RECURSIVE Bytes(_)
Bytes(text) ==
    IF text = <<>> THEN <<>> ELSE UTF8(Head(text)) \o Bytes(Tail(text))

Texts == SeqsUpTo(TextCharacters, MaxTextLen)

\* levenshteinDistance(a, b)
CallLevenshteinDistance ==
    /\ Calling("levenshteinDistance")
    /\ Return(levenshteinDistance(Bytes(pArgs[1]), Bytes(pArgs[2])))

\* three entries for ApplyDedup: the indices 0, 1 and 2 are in range
ApplyEntries ==
    Numbered(<<[c |-> CmdLs, t |-> NoTime], [c |-> CmdPwd, t |-> NoTime],
               [c |-> CmdGitStatus, t |-> NoTime]>>)

\* Indices lists of a group: in order and not, with a repeated index, with
\* an index past the end, empty
IndexLists == {<<>>, <<0, 1>>, <<1, 0>>, <<1, 2>>, <<0, 1, 2>>, <<0, 0>>, <<3, 0>>}

GroupChoices ==
    {DedupGroup(representative, indices, "same") :
        representative \in 0..3, indices \in IndexLists}

\* the most groups of a DedupResult
MaxDedupGroups == 2

\* ApplyDedup(entries, result)
CallApplyDedup ==
    /\ Calling("ApplyDedup")
    /\ Return(ApplyDedup(pArgs[1], pArgs[2]).entries)

\* commands with one sensitive value each, and one with none
CmdMysqlFlag == <<"a"," ","-","p","x","y">>

CmdTokenFlag == <<"x"," ","-","-","t","o","k","e","n"," ","a","b","c">>

AllowCommands == {CmdMysqlFlag, CmdTokenFlag, SanKey, SanLs}

\* the text a pattern matches in each of them
AllowValues ==
    {<<"-","p","x","y">>, <<"-","-","t","o","k","e","n"," ","a","b","c">>, <<"-","-","-","-","-","B","E","G","I","N"," ","R","S","A"," ","P","R","I","V","A","T","E"," ","K","E","Y","-","-","-","-","-">>}

\* NewSanitizer().WithAllowlist(values), then Process on the command as the
\* one entry and SanitizeString on the command; neither reads s.allowlist
CallSanitizer ==
    /\ Calling("Sanitizer")
    /\ LET s == WithAllowlist(NewSanitizer, pArgs[1])
           processed == SanitizerProcess(s.strictMode, s.patterns,
                                         <<Entry(1, 0, pArgs[2], FALSE)>>)
       IN Return([result |-> processed.result,
                  redactions |-> processed.redactions,
                  string |-> SanitizeString(pArgs[2])])

\* tool names: those of the families, one of no family, and the tool of a
\* blank command
ToolNames == UNION Families \cup {CmdLs, <<>>}

\* areRelatedTools(a, b)
CallAreRelatedTools ==
    /\ Calling("areRelatedTools")
    /\ Return(areRelatedTools(pArgs[1], pArgs[2]))

\* NewIntentAnalyzer().Analyze(entries)
CallAnalyze ==
    /\ Calling("Analyze")
    /\ \E groups \in Analyze(DefaultWorkflows, DefaultThreshold, pArgs[1]) :
           Return(groups)

CallStart ==
    \/ /\ pFun = "extractTool"
       /\ pArgs \in {<<c>> : c \in ToolCommands}
       /\ pOut = <<>>
    \/ /\ pFun = "inferIntent"
       /\ pArgs \in {<<ws, c>> : ws \in IntentWorkflows, c \in IntentCommands}
       /\ pOut = <<>>
    \/ /\ pFun = "levenshteinDistance"
       /\ pArgs \in Texts \X Texts
       /\ pOut = <<>>
    \/ /\ pFun = "ApplyDedup"
       /\ pArgs \in {<<ApplyEntries, groups>> : groups \in SeqsUpTo(GroupChoices, MaxDedupGroups)}
       /\ pOut = <<>>
    \/ /\ pFun = "Sanitizer"
       /\ pArgs \in SeqsUpTo(AllowValues, 1) \X AllowCommands
       /\ pOut = <<>>
    \/ /\ pFun = "areRelatedTools"
       /\ pArgs \in ToolNames \X ToolNames
       /\ pOut = <<>>
    \/ /\ pFun = "Analyze"
       /\ pArgs \in {<<entries>> : entries \in AnalyzeInputs}
       /\ pOut = <<>>
(***************************************************************************)
(* Specifications: one per component; the other components stay idle.      *)
(***************************************************************************)

InitDedup == DedupStart /\ SanIdle /\ AnalyzeIdle /\ RunIdle /\ ExtractIdle /\ CallIdle

NextDedup == DedupIterate \/ DedupReturn

SpecDedup == InitDedup /\ [][NextDedup]_vars

InitSanitize == (ProcessStart \/ SanitizeStringStart) /\ DedupIdle /\ AnalyzeIdle /\ RunIdle /\ ExtractIdle /\ CallIdle

NextSanitize ==
    SanitizePattern \/ SanitizeEntryReturn \/ ProcessReturn \/ SanitizeStringCall

SpecSanitize == InitSanitize /\ [][NextSanitize]_vars

InitAnalyze == AnalyzeStart /\ DedupIdle /\ SanIdle /\ RunIdle /\ ExtractIdle /\ CallIdle

NextAnalyze == AnalyzeIterate \/ AnalyzeReturn

SpecAnalyze == InitAnalyze /\ [][NextAnalyze]_vars

InitRun == RunStart /\ DedupIdle /\ SanIdle /\ AnalyzeIdle /\ ExtractIdle /\ CallIdle

NextRun ==
    RunExtract \/ RunDedupAI \/ RunDedupLocal \/ RunSanitize \/ RunAnalyze
        \/ RunExplain \/ RunGenerate

SpecRun == InitRun /\ [][NextRun]_vars

InitExtract == ExtractStart /\ DedupIdle /\ SanIdle /\ AnalyzeIdle /\ RunIdle /\ CallIdle

NextExtract == ExtractInvalidRange \/ ExtractUnreadable \/ ExtractScan \/ ExtractReturn

SpecExtract == InitExtract /\ [][NextExtract]_vars

InitCall == CallStart /\ DedupIdle /\ SanIdle /\ AnalyzeIdle /\ RunIdle /\ ExtractIdle

NextCall ==
    \/ CallExtractTool
    \/ CallInferIntent
    \/ CallLevenshteinDistance
    \/ CallApplyDedup
    \/ CallSanitizer
    \/ CallAreRelatedTools
    \/ CallAnalyze

SpecCall == InitCall /\ [][NextCall]_vars

(***************************************************************************)
(* Properties of Sanitizer.                                                *)
(***************************************************************************)

Range(seq) == {seq[k] : k \in DOMAIN seq}

\* the input entry with Number n
EntryNumbered(entries, n) == CHOOSE e \in Range(entries) : e.Number = n

\* the pattern of that name is a FullRemove pattern
IsFullRemove(name) ==
    \E k \in DOMAIN NewSanitizerPatterns :
        NewSanitizerPatterns[k].Name = name /\ NewSanitizerPatterns[k].FullRemove

\* C3: every Redaction that Process holds or has returned has an empty
\* Original when strict mode is off, for mask and full-removal redactions
\* alike; in strict mode its Original is the Command the entry came in with,
\* the text before any pattern was applied.
C3_OriginalOnlyInStrictMode ==
    \A r \in Range(sRedactions \o sEntryRedactions) :
        r.Original = IF sStrict THEN EntryNumbered(sEntries, r.EntryNumber).Command
                     ELSE <<>>

\* Process has returned, in non-strict mode, a mask redaction and a
\* full-removal redaction
C3_Witness ==
    /\ sDone
    /\ ~sStrict
    /\ \E r \in Range(sRedactions) : IsFullRemove(r.PatternName)
    /\ \E r \in Range(sRedactions) : ~IsFullRemove(r.PatternName)

\* the redactions of the entry with Number n, in order
ForEntry(redactions, n) == SelectSeq(redactions, LAMBDA r : r.EntryNumber = n)

\* C4: a sanitizeEntry call that returned because a FullRemove pattern
\* matched the current text tried no pattern after that one and returned
\* exactly one Redaction, with that pattern's name and the entry's Number;
\* the entry is not in the result, and that Redaction is all that the
\* redactions of Process hold for it, whatever masks were applied before.
C4_FullRemoveDropsEntry ==
    \A k \in DOMAIN sTrace :
        LET t == sTrace[k]
            entry == sEntries[t.index]
        IN t.removedBy # 0 =>
              /\ NewSanitizerPatterns[t.removedBy].FullRemove
              /\ t.evaluated = t.removedBy
              /\ Len(t.emitted) = 1
              /\ t.emitted[1].PatternName = NewSanitizerPatterns[t.removedBy].Name
              /\ t.emitted[1].EntryNumber = entry.Number
              /\ \A j \in DOMAIN sResult : sResult[j].Number # entry.Number
              /\ ForEntry(sRedactions, entry.Number) = t.emitted

\* Process has returned after dropping an entry that earlier mask patterns
\* had already changed
C4_Witness ==
    /\ sDone
    /\ \E k \in DOMAIN sTrace : sTrace[k].removedBy # 0 /\ sTrace[k].masks > 0

\* C5: SanitizeString is idempotent: applied to its own result it returns
\* that result.
C5_SanitizeStringIdempotent ==
    \A k \in 2..(Len(sTexts) - 1) : sTexts[k + 1] = sTexts[k]

(***************************************************************************)
(* Properties of IntentAnalyzer.                                           *)
(***************************************************************************)

\* the Commands of the groups, concatenated in group order
RECURSIVE Concat(_)
Concat(groups) ==
    IF groups = <<>> THEN <<>> ELSE Head(groups).Commands \o Concat(Tail(groups))

\* C1: the Commands of the groups Analyze returns, concatenated in group
\* order, are the input sequence; during the loop the groups so far and the
\* current group hold the entries already visited; every group holds at
\* least one entry, and an empty input gives no groups.
C1_PartitionComplete ==
    /\ ~aDone => Concat(aGroups \o aCurrent) = SubSeq(aEntries, 1, aI - 1)
    /\ aDone => Concat(aGroups) = aEntries
    /\ aDone /\ aEntries = <<>> => aGroups = <<>>
    /\ \A k \in DOMAIN aGroups : Len(aGroups[k].Commands) >= 1

\* Analyze has returned several groups, one of them with several entries
C1_Witness ==
    /\ aDone
    /\ Len(aGroups) >= 2
    /\ \E k \in DOMAIN aGroups : Len(aGroups[k].Commands) >= 2

(***************************************************************************)
(* Properties of run.                                                      *)
(***************************************************************************)

\* C6: every message handed to the AI service was built after
\* Sanitizer.Process had returned in this run, and holds only Commands of
\* the sanitized entries.
C6_AIReceivesSanitizedOnly ==
    \A k \in DOMAIN rSent :
        /\ rSent[k].sanitized
        /\ Range(rSent[k].commands) \subseteq {e.Command : e \in Range(rEntries)}

FailedDedup == {"error", "no-object", "unparsable"}

\* C7: when the AI deduplication failed, by an error or by a response
\* without a JSON object or with one that does not parse, the entries that
\* reach sanitization are the result of Dedup.Process on the extracted
\* entries, and run has returned no error.
C7_FailedAIDedupFallsBack ==
    rPc = "sanitize" /\ rDedup \in FailedDedup =>
        /\ rEntries = DedupProcess(rExtracted)
        /\ rErr = "nil"

(***************************************************************************)
(* Further properties of Dedup.                                            *)
(***************************************************************************)

IsExport(command) == HasPrefix(TrimSpace(command), ExportPrefix)

IsCd(command) == HasPrefix(TrimSpace(command), CdPrefix)

\* the variable an export command assigns: the text before the first "="
ExportName(command) == extractExportVar(TrimSpace(command))

\* the last iteration put its entry in the place of the last result entry
MergedIntoLater ==
    /\ Len(dResult) = Len(dBefore)
    /\ dResult = [dBefore EXCEPT ![Len(dBefore)] = LastEntry]

ReachedCollapse ==
    /\ Compared
    /\ TrimSpace(LastPrev.Command) # TrimSpace(LastEntry.Command)
    /\ ~TypoRule(LastPrev.Command, LastEntry.Command)

ToolsOf(commands) ==
    {extractTool(commands[k].Command) : k \in 1..Len(commands)} \ {<<>>}

\* the first command of the given tool
FirstUse(commands, tool) ==
    MinOf({k \in 1..Len(commands) : extractTool(commands[k].Command) = tool})

\* the most frequent tool, the one met first in command order among equals
FirstMostFrequent(commands) ==
    CHOOSE t \in ToolsOf(commands) :
        \A u \in ToolsOf(commands) :
            \/ ToolCount(commands, t) > ToolCount(commands, u)
            \/ /\ ToolCount(commands, t) = ToolCount(commands, u)
               /\ FirstUse(commands, t) <= FirstUse(commands, u)

\* C12: a finished group without intent is titled after its most frequent
\* tool, and among equally frequent tools after the one met first.
C12_TitleNamesFirstMostFrequentTool ==
    aDone =>
        \A g \in 1..Len(aGroups) :
            (aGroups[g].Intent = "" /\ ToolsOf(aGroups[g].Commands) # {}) =>
                aGroups[g].Title = TitleFor(FirstMostFrequent(aGroups[g].Commands))

(***************************************************************************)
(* Further properties of the sanitizer.                                    *)
(***************************************************************************)

\* an entry without its Command
Identity(entry) ==
    [Number |-> entry.Number, Timestamp |-> entry.Timestamp, HasTime |-> entry.HasTime]

Identities(entries) == [k \in DOMAIN entries |-> Identity(entries[k])]

\* the place in the input of the entry a redaction is about; 0 if none
InputPlace(redaction) ==
    LET places == {k \in DOMAIN sEntries : sEntries[k].Number = redaction.EntryNumber}
    IN IF places = {} THEN 0 ELSE MinOf(places)

C13_ResultKeepsIdentity ==
    sCall = "Process" =>
        /\ IsSubsequence(Identities(sResult), Identities(sEntries))
        /\ \A k \in DOMAIN sRedactions : InputPlace(sRedactions[k]) > 0
        /\ \A k \in DOMAIN sRedactions : \A l \in DOMAIN sRedactions :
              k < l => InputPlace(sRedactions[k]) <= InputPlace(sRedactions[l])

\* C13: the result of Process is, Command aside, a subsequence of its input;
\* every Redaction carries the Number of an input entry and the redactions
\* come in the order of the input; the input entries are never written.
C13_ProcessKeepsOrderAndIdentity ==
    /\ []C13_ResultKeepsIdentity
    /\ [][sCall = "Process" => sEntries' = sEntries]_vars

\* C13 witness: Process returned after removing the first of two entries and
\* masking the second, with a redaction for each.
C13_Witness ==
    /\ sCall = "Process"
    /\ sDone
    /\ Len(sEntries) = 2
    /\ Len(sResult) = 1
    /\ sResult[1].Command # sEntries[2].Command
    /\ Identity(sResult[1]) = Identity(sEntries[2])
    /\ Len(sRedactions) >= 2
    /\ sRedactions[1].EntryNumber # sRedactions[Len(sRedactions)].EntryNumber

(***************************************************************************)
(* Further properties of run and the ai package.                           *)
(***************************************************************************)

\* C14: a step of run that applies ApplyDedup leaves a subsequence of the
\* entries it had, each entry as it was, and a step that applies
\* EnhanceGroups leaves as many groups, each with the Commands it had, for
\* every response of the collaborator.
C14_EnhancementKeepsEntries ==
    [][/\ (rPc = "dedup" /\ rAI /\ rDedup' # "error") => IsSubsequence(rEntries', rEntries)
       /\ rPc = "explain" =>
             /\ Len(rGroups') = Len(rGroups)
             /\ \A g \in 1..Len(rGroups) : rGroups'[g].Commands = rGroups[g].Commands]_vars

\* C14 witness: ApplyDedup dropped the first of two entries and kept the
\* representative, and EnhanceGroups retitled the group of that entry.
C14_Witness ==
    /\ rPc = "generate"
    /\ rAI
    /\ rDedup = "parsed"
    /\ Len(rExtracted) = 2
    /\ Len(rEntries) = 1
    /\ rEntries[1].Number = 2
    /\ Len(rGroups) = 1
    /\ rGroups[1].Title = AITitle
    /\ rGroups[1].Commands[1].Number = 2

(***************************************************************************)
(* Properties of the extractor.                                            *)
(***************************************************************************)

\* the first place from k on that holds no digit
FirstNonDigit(line, k) ==
    MinOf({j \in k..(Len(line) + 1) : j > Len(line) \/ line[j] \notin Digit})

\* the places of the second ":" and of the ";" of a line
Marks(line) ==
    LET colon == FirstNonDigit(line, 3)
    IN [colon |-> colon, semicolon |-> FirstNonDigit(line, colon + 1)]

\* the line has the zsh extended-history format, ": <digits>:<digits>;<command>"
IsZshLine(line) ==
    /\ Len(line) >= 2 /\ line[1] = ":" /\ line[2] = " "
    /\ LET m == Marks(line)
       IN /\ m.colon > 3 /\ m.colon <= Len(line) /\ line[m.colon] = ":"
          /\ m.semicolon > m.colon + 1 /\ m.semicolon <= Len(line)
          /\ line[m.semicolon] = ";"

CommandOf(line) == SubSeq(line, Marks(line).semicolon + 1, Len(line))

\* the places of the lines in that format
ZshLines == {k \in DOMAIN xLines : IsZshLine(xLines[k])}

\* the command number of line k: the count of lines in that format up to it
CommandNumber(k) == Cardinality({m \in ZshLines : m <= k})

\* the lines in that format whose command number is in [from, to]
InRange ==
    {k \in ZshLines : xFrom <= CommandNumber(k) /\ CommandNumber(k) <= xTo}

LineOf(entry) ==
    xLines[CHOOSE k \in ZshLines : CommandNumber(k) = entry.Number]

\* the time stamp of a line in the zsh format does not parse as an int64
Unparseable(line) == ParseInt(SubSeq(line, 3, Marks(line).colon - 1)).err

\* C15: an entry extracted from a line whose time stamp does not parse has
\* HasTime = FALSE, and neither hasSignificantGap nor hasTimeGap reports a
\* gap between it and any other extracted entry.
C15_UnparseableTimestampHasNoTime ==
    \A n \in DOMAIN xEntries :
        Unparseable(LineOf(xEntries[n])) =>
            /\ ~xEntries[n].HasTime
            /\ \A m \in DOMAIN xEntries :
                  /\ ~hasSignificantGap(xEntries[n], xEntries[m])
                  /\ ~hasSignificantGap(xEntries[m], xEntries[n])
                  /\ ~hasTimeGap(DefaultThreshold, xEntries[n], xEntries[m])
                  /\ ~hasTimeGap(DefaultThreshold, xEntries[m], xEntries[n])

(***************************************************************************)
(* Further properties of Dedup: the typo rule and the lookahead.           *)
(***************************************************************************)

\* the pair the last iteration found to be a typo and its correction: the
\* last result entry and the entry, or the entry and the one after it
TypoPair ==
    IF dRule = "typo" THEN <<TrimSpace(LastPrev.Command), TrimSpace(LastEntry.Command)>>
    ELSE <<TrimSpace(LastEntry.Command), TrimSpace(dEntries[dI].Command)>>

TypoDistance == levenshteinDistance(TypoPair[1], TypoPair[2])

ScaledThreshold(longer) ==
    IF longer < 30 THEN 2 ELSE IF longer >= 50 THEN 5 ELSE longer \div 10

Unrelated(a, b) == a # b /\ ~\E family \in Families : {a, b} \subseteq family

\* both entries have a time stamp and the later exceeds the earlier by more
\* than the threshold
GapBetween(prev, curr) ==
    prev.HasTime /\ curr.HasTime /\ curr.Timestamp - prev.Timestamp > aThreshold

\* Analyze is about to process an entry after the first
AtLaterEntry == ~aDone /\ aI > 1 /\ aI <= Len(aEntries)

\* one of the three reasons to start a group at entry aI holds
GroupBreaks ==
    \/ Unrelated(extractTool(aEntries[aI - 1].Command), extractTool(aEntries[aI].Command))
    \/ GapBetween(aEntries[aI - 1], aEntries[aI])
    \/ /\ aCurrent[1].Intent # ""
       /\ aCurrent[1].Intent # inferIntent(aWorkflows, aEntries[aI].Command)

\* C18: processing an entry after the first closes the current group and
\* starts a group of that entry alone iff its tool is unrelated to the
\* previous entry's, or both have time stamps more than the threshold apart,
\* or the current group's non-empty intent differs from the entry's;
\* otherwise the entry is appended to the current group.
C18_NewGroupIffBreak ==
    [][AtLaterEntry =>
          IF GroupBreaks
          THEN /\ aCurrent'[1].Commands = <<aEntries[aI]>>
               /\ Len(aGroups') = Len(aGroups) + 1
               /\ aGroups'[Len(aGroups')].Commands = aCurrent[1].Commands
          ELSE /\ aCurrent'[1].Commands = Append(aCurrent[1].Commands, aEntries[aI])
               /\ aGroups' = aGroups]_vars

\* C18 witness: the second entry started a group although its tool is
\* related to the first entry's and no time gap lies between them: the
\* intents differ.
C18_Witness ==
    /\ aI = 3
    /\ Len(aGroups) = 1
    /\ ~Unrelated(extractTool(aEntries[1].Command), extractTool(aEntries[2].Command))
    /\ ~GapBetween(aEntries[1], aEntries[2])
    /\ aGroups[1].Intent # ""
    /\ aCurrent[1].Commands = <<aEntries[2]>>

\* `result` before Process came to entry i
RECURSIVE ResultBefore(_)
ResultBefore(i) ==
    IF i = 1 THEN <<>> ELSE ProcessEntry(ResultBefore(i - 1), dEntries, i - 1).res

\* Process dropped entry i by the lookahead
DroppedByLookahead(i) == ProcessEntry(ResultBefore(i), dEntries, i).rule = "lookahead"

\* entry j comes after entry i by a chain of typo corrections
TypoSuccessor(i, j) ==
    /\ j > i
    /\ \A k \in i..(j - 1) : TypoRule(dEntries[k].Command, dEntries[k + 1].Command)

\* C19: an entry dropped by the lookahead is followed by a non-blank entry,
\* and when Process has returned, the result holds an entry of a later place
\* in the input that corrects the dropped one.
C19_LookaheadKeepsCorrection ==
    /\ dRule = "lookahead" => TrimSpace(dEntries[dI].Command) # <<>>
    /\ dDone =>
          \A i \in DOMAIN dEntries :
              DroppedByLookahead(i) =>
                  \E j \in DOMAIN dEntries :
                      TypoSuccessor(i, j) /\ dEntries[j] \in Range(dResult)

(***************************************************************************)
(* Further properties of the sanitizer: one pattern at a time.             *)
(***************************************************************************)

\* sanitizeEntry is about to try pattern sPat on the text left so far
AtPattern ==
    /\ sCall = "Process"
    /\ ~sDone
    /\ sIdx <= Len(sEntries)
    /\ sPat <= Len(NewSanitizerPatterns)

\* the text after every match of the pattern has been replaced
Applied(pattern, text) ==
    IF MatchString(pattern.Regex, text)
    THEN ReplaceAllString(pattern.Regex, text, pattern.Replacement)
    ELSE text

\* trying a pattern on an entry that is not removed by it: the next pattern
\* is the next of the list, the text is the text left so far with the pattern
\* applied, and one Redaction of that pattern for that entry is added iff
\* the text changed
C20_PatternStep ==
    (AtPattern /\ sIdx' = sIdx) =>
        LET pattern == NewSanitizerPatterns[sPat]
            had == Len(sEntryRedactions)
        IN /\ sPat' = sPat + 1
           /\ sCommand' = Applied(pattern, sCommand)
           /\ IF sCommand' # sCommand
              THEN /\ Len(sEntryRedactions') = had + 1
                   /\ SubSeq(sEntryRedactions', 1, had) = sEntryRedactions
                   /\ sEntryRedactions'[had + 1].PatternName = pattern.Name
                   /\ sEntryRedactions'[had + 1].EntryNumber = sEntries[sIdx].Number
              ELSE sEntryRedactions' = sEntryRedactions

\* an entry that no FullRemove pattern removed is in the result with the
\* text left by the last pattern; Process holds the redactions collected for
\* it, and with none collected its Command is the one it came with
C20_EntryReturned ==
    \A k \in DOMAIN sTrace :
        LET t == sTrace[k]
            entry == sEntries[t.index]
        IN t.removedBy = 0 =>
              /\ t.evaluated = Len(NewSanitizerPatterns)
              /\ ForEntry(sRedactions, entry.Number) = t.emitted
              /\ \E j \in DOMAIN sResult :
                    /\ sResult[j].Number = entry.Number
                    /\ t.emitted = <<>> => sResult[j].Command = entry.Command

\* C20: for an entry that is not fully removed, the patterns are applied in
\* list order, each to the text left by the previous ones, with exactly one
\* Redaction per pattern whose application changed the text and none
\* otherwise; an entry changed by no pattern keeps its Command and has no
\* redactions.
C20_OneRedactionPerChangingPattern ==
    /\ [][C20_PatternStep]_vars
    /\ []C20_EntryReturned

\* C20 witness: Process returned; the first entry was changed by two
\* patterns and has two redactions, the second matches a pattern whose
\* replacement leaves it as it is and has none.
C20_Witness ==
    /\ sCall = "Process"
    /\ sDone
    /\ Len(sTrace) = 2
    /\ sTrace[1].removedBy = 0
    /\ sTrace[2].removedBy = 0
    /\ Len(sTrace[1].emitted) = 2
    /\ sTrace[1].emitted[1].PatternName # sTrace[1].emitted[2].PatternName
    /\ sTrace[2].emitted = <<>>
    /\ \E p \in DOMAIN NewSanitizerPatterns :
          MatchString(NewSanitizerPatterns[p].Regex, sEntries[2].Command)
    /\ sResult[2].Command = sEntries[2].Command

(***************************************************************************)
(* Properties of extractTool and inferIntent.                              *)
(***************************************************************************)

\* the fields of a command that are no wrapper
RealFields(command) ==
    SelectSeq(Fields(command), LAMBDA word : word \notin Wrappers \cup {Sudo})

\* C21: for a blank command extractTool returns the empty string, and for a
\* command with a token that is no wrapper it returns the first such token,
\* however many wrappers come before it.
C21_ToolBeneathWrappers ==
    Called("extractTool") =>
        /\ Fields(pArgs[1]) = <<>> => pOut[1] = <<>>
        /\ RealFields(pArgs[1]) # <<>> => pOut[1] = RealFields(pArgs[1])[1]

\* the workflows of the list with a prefix the command starts with
MatchingWorkflows(workflows, command) ==
    {w \in 1..Len(workflows) :
        \E p \in 1..Len(workflows[w].Patterns) :
            LET prefix == workflows[w].Patterns[p]
            IN /\ Len(prefix) <= Len(command)
               /\ \A k \in 1..Len(prefix) : command[k] = prefix[k]}

\* C22: inferIntent returns the Name of the first workflow in list order with
\* a prefix the command starts with and "" when there is none; the built-in
\* workflows come before the custom ones, and a command starting with
\* `npm install` gets npm-build.
C22_FirstMatchingWorkflow ==
    Called("inferIntent") =>
        LET workflows == pArgs[1]
            command == pArgs[2]
            hits == MatchingWorkflows(workflows, command)
        IN /\ SubSeq(workflows, 1, Len(DefaultWorkflows)) = DefaultWorkflows
           /\ hits = {} => pOut[1] = ""
           /\ hits # {} =>
                  \E w \in hits :
                      /\ \A v \in hits : w <= v
                      /\ pOut[1] = workflows[w].Name
           /\ command = CmdNpmInstall => pOut[1] = "npm-build"

\* `npm install` has returned npm-build though npm-dev and a custom workflow
\* match it too
C22_Witness ==
    /\ Called("inferIntent")
    /\ pArgs[2] = CmdNpmInstall
    /\ Cardinality(MatchingWorkflows(pArgs[1], pArgs[2])) = 3
    /\ pOut[1] = "npm-build"

(***************************************************************************)
(* Properties of the groups of Analyze.                                    *)
(***************************************************************************)

\* the inferred intents of a group's commands, in order
IntentsOf(workflows, group) ==
    [k \in 1..Len(group.Commands) |-> inferIntent(workflows, group.Commands[k].Command)]

\* the group's Intent is the first non-empty intent of its commands, and
\* every later command has exactly that intent
IntentIsFirstInferred(workflows, group) ==
    LET intents == IntentsOf(workflows, group)
        named == {k \in 1..Len(intents) : intents[k] # ""}
    IN IF named = {} THEN group.Intent = ""
       ELSE LET first == MinOf(named)
            IN /\ group.Intent = intents[first]
               /\ \A k \in 1..Len(intents) : k > first => intents[k] = group.Intent

\* C23: in every group returned by Analyze, Intent is the first non-empty
\* inferred intent among the group's commands ("" if none has one); the
\* commands before it have no intent and every command after it has exactly
\* the group's Intent.
C23_GroupIntentIsFirstInferred ==
    aDone => \A g \in 1..Len(aGroups) : IntentIsFirstInferred(aWorkflows, aGroups[g])

\* a returned group of three commands that adopted its intent from the second
C23_Witness ==
    /\ aDone
    /\ \E g \in 1..Len(aGroups) :
           LET intents == IntentsOf(aWorkflows, aGroups[g])
           IN /\ Len(intents) = 3
              /\ intents[1] = ""
              /\ intents[2] # ""
              /\ aGroups[g].Intent = intents[3]

(***************************************************************************)
(* Further properties of Dedup.Process.                                    *)
(***************************************************************************)

\* the command is empty or white space only
Blank(command) == \A k \in 1..Len(command) : command[k] \in WhiteSpace

\* the places of the input's non-blank entries
NonBlankPlaces == {k \in 1..Len(dEntries) : ~Blank(dEntries[k].Command)}

\* C24: no blank entry is ever in the result of Dedup.Process; the first
\* non-blank entry of the input enters the result whatever follows it; a
\* non-empty result never becomes empty; and the output is empty exactly when
\* the input has no non-blank command.
C24_FirstNonBlankAlwaysKept ==
    /\ \A k \in 1..Len(dResult) : ~Blank(dResult[k].Command)
    /\ dBefore # <<>> => dResult # <<>>
    /\ \A k \in NonBlankPlaces :
           (k = MinOf(NonBlankPlaces) /\ dI = k + 1) => dResult = <<dEntries[k]>>
    /\ dDone => (dResult = <<>> <=> NonBlankPlaces = {})

\* Process has returned a non-empty result for an input that starts with a
\* blank entry and whose first non-blank entry is followed by an entry that
\* the lookahead takes for its correction
C24_Witness ==
    /\ dDone
    /\ Len(dEntries) = 3
    /\ Blank(dEntries[1].Command)
    /\ ~Blank(dEntries[2].Command)
    /\ isTypoCorrection(dEntries[2].Command, dEntries[3].Command)
    /\ dResult # <<>>

(***************************************************************************)
(* Properties of levenshteinDistance.                                      *)
(***************************************************************************)

\* the classical edit distance of two texts: the least number of
\* single-character insertions, deletions and substitutions
RECURSIVE EditDistance(_, _)
EditDistance(a, b) ==
    IF a = <<>> THEN Len(b)
    ELSE IF b = <<>> THEN Len(a)
    ELSE IF Head(a) = Head(b) THEN EditDistance(Tail(a), Tail(b))
    ELSE 1 + MinOf({EditDistance(Tail(a), b),
                    EditDistance(a, Tail(b)),
                    EditDistance(Tail(a), Tail(b))})

\* C25: for all strings a and b, levenshteinDistance(a, b) is the classical
\* edit distance, counted in single characters.
C25_ClassicalEditDistance ==
    Called("levenshteinDistance") => pOut[1] = EditDistance(pArgs[1], pArgs[2])

\* on texts of ASCII characters the two agree
AsciiEditDistance ==
    (/\ Called("levenshteinDistance")
     /\ \A k \in 1..2 : \A j \in 1..Len(pArgs[k]) : pArgs[k][j] # EAcute)
        => pOut[1] = EditDistance(pArgs[1], pArgs[2])

(***************************************************************************)
(* Properties of ApplyDedup.                                               *)
(***************************************************************************)

\* the group is well formed for the entries: its Indices are in range and
\* its Representative is one of them
WellFormed(entries, group) ==
    /\ \A k \in 1..Len(group.Indices) :
           group.Indices[k] >= 0 /\ group.Indices[k] < Len(entries)
    /\ \E k \in 1..Len(group.Indices) : group.Indices[k] = group.Representative

\* the entry at the 0-based index is in the output
Remains(entries, output, index) ==
    \E k \in 1..Len(output) : output[k] = entries[index + 1]

\* C26: after ApplyDedup at least one entry of every group with in-range
\* indices remains, and the entry a group names as its representative is
\* never removed.
C26_RepresentativesRemain ==
    Called("ApplyDedup") =>
        \A g \in 1..Len(pArgs[2]) :
            LET group == pArgs[2][g]
            IN WellFormed(pArgs[1], group) =>
                  /\ \E k \in 1..Len(group.Indices) :
                         Remains(pArgs[1], pOut[1], group.Indices[k])
                  /\ Remains(pArgs[1], pOut[1], group.Representative)

(***************************************************************************)
(* Properties of the Sanitizer's allowlist.                                *)
(***************************************************************************)

\* the value occurs in the text
Occurs(value, text) ==
    \E k \in 1..(Len(text) - Len(value) + 1) :
        SubSeq(text, k, k + Len(value) - 1) = value

\* C27: a value registered with WithAllowlist is never redacted: when the
\* text a pattern matches in a command is an allow-listed value, Process and
\* SanitizeString leave the value in the command and Process emits no
\* Redaction for it.
C27_AllowlistedValueKept ==
    Called("Sanitizer") =>
        \A k \in 1..Len(pArgs[1]) :
            Occurs(pArgs[1][k], pArgs[2]) =>
                /\ Occurs(pArgs[1][k], pOut[1].string)
                /\ \E e \in 1..Len(pOut[1].result) :
                       Occurs(pArgs[1][k], pOut[1].result[e].Command)
                /\ pOut[1].redactions = <<>>

\* C28: no two adjacent entries of the result of Dedup.Process have equal
\* trimmed command text, unless both carry time stamps and the later one's
\* exceeds the earlier one's by more than TimeGap; this holds after every
\* iteration, so also after a typo correction or a collapse has replaced the
\* last entry.
C28_NoAdjacentDuplicates ==
    \A k \in 1..(Len(dResult) - 1) :
        TrimSpace(dResult[k].Command) = TrimSpace(dResult[k + 1].Command) =>
            /\ dResult[k].HasTime
            /\ dResult[k + 1].HasTime
            /\ dResult[k + 1].Timestamp - dResult[k].Timestamp > TimeGap

(***************************************************************************)
(* Properties of areRelatedTools.                                          *)
(***************************************************************************)

\* the tools of a group's commands, in order
GroupTools(group) ==
    [k \in 1..Len(group.Commands) |-> extractTool(group.Commands[k].Command)]

\* C29: areRelatedTools is reflexive, symmetric and transitive, the tool
\* families being pairwise disjoint; and in every group returned by Analyze
\* any two commands have related tools.
C29_RelatedToolsIsEquivalence ==
    /\ \A F \in Families : \A G \in Families : F # G => F \cap G = {}
    /\ Called("areRelatedTools") =>
           LET a == pArgs[1]
               b == pArgs[2]
           IN /\ a = b => pOut[1]
              /\ pOut[1] = areRelatedTools(b, a)
              /\ pOut[1] => \A t \in ToolNames :
                                areRelatedTools(b, t) => areRelatedTools(a, t)
    /\ Called("Analyze") =>
           \A g \in 1..Len(pOut[1]) :
               LET tools == GroupTools(pOut[1][g])
               IN \A j \in 1..Len(tools) : \A k \in 1..Len(tools) :
                      areRelatedTools(tools[j], tools[k])

\* Analyze has returned a group whose first and last commands, not adjacent,
\* have different tools of one family
C29_Witness ==
    /\ Called("Analyze")
    /\ \E g \in 1..Len(pOut[1]) :
           LET tools == GroupTools(pOut[1][g])
           IN /\ Len(tools) = 3
              /\ tools[1] # tools[3]
              /\ areRelatedTools(tools[1], tools[3])

(***************************************************************************)
(* Properties relating SanitizeString and Process.                         *)
(***************************************************************************)

\* Process with the sanitizer's settings on one entry with the given command
ProcessOne(command) ==
    SanitizerProcess(sStrict, NewSanitizerPatterns, <<Entry(1, 0, command, FALSE)>>)

\* SanitizeString has been called on sTexts[k] and has returned sTexts[k + 1]
StringCalls ==
    IF sCall = "SanitizeString" THEN 1..(Len(sTexts) - 1) ELSE {}

\* C30 as stated: SanitizeString(x) is the Command of the one entry Process
\* returns for an entry with Command x when Process keeps the entry, and
\* SanitizeString returns the removal placeholder exactly when Process drops
\* the entry.
C30_StringAgreesWithProcess ==
    \A k \in StringCalls :
        LET processed == ProcessOne(sTexts[k]).result
        IN /\ processed # <<>> => sTexts[k + 1] = processed[1].Command
           /\ sTexts[k + 1] = RemovedText <=> processed = <<>>

\* C30: SanitizeString(x) is the Command of the one entry Process returns for
\* an entry with Command x when Process keeps the entry, and the removal
\* placeholder when Process drops it; for a kept entry it returns the
\* placeholder only if the entry's sanitized Command is the placeholder text.
C30_StringAgreesUnlessPlaceholder ==
    \A k \in StringCalls :
        LET processed == ProcessOne(sTexts[k]).result
        IN /\ Len(processed) <= 1
           /\ processed # <<>> => sTexts[k + 1] = processed[1].Command
           /\ processed = <<>> => sTexts[k + 1] = RemovedText

\* SanitizeString has returned the placeholder for a command whose entry
\* Process drops, and has then been called on the placeholder
C30_Witness ==
    /\ sCall = "SanitizeString"
    /\ Len(sTexts) = 3
    /\ ProcessOne(sTexts[1]).result = <<>>
    /\ sTexts[2] = RemovedText
    /\ ProcessOne(sTexts[2]).result # <<>>

====
